---- MODULE Spec2Model ----
(***************************************************************************)
(* A model of the nirv query core: the SQL parser's conversion of a parsed *)
(* statement into the query model, the planner, the dispatcher with its    *)
(* two registries, the executor, and the MockConnector / PostgresConnector *)
(* behind the Connector trait.  Strings that are only compared for         *)
(* equality are TLA+ strings; the contents of Value::Text cells, which are *)
(* ordered by the executor, are sequences of byte codes.                   *)
(***************************************************************************)
EXTENDS Integers, Sequences, FiniteSets, TLC

VARIABLES
    connector_registry,     \* DefaultDispatcher.connector_registry: name -> connector
    type_to_connector,      \* DataObjectTypeRegistry.type_to_connector: object type -> name
    connector_capabilities, \* DataObjectTypeRegistry.connector_capabilities: name -> capabilities
    executor_registry,      \* DefaultQueryExecutor.connector_registry: Option<ConnectorRegistry>
    created,                \* number of connector objects constructed so far (object identity)
    last,                   \* the last call made on the core, with its input and its outcome
    in_flight,              \* the Engine::execute_query calls under way, one per caller task
    dispatcher_lock,        \* Engine.dispatcher's RwLock: the readers and the writer holding it
    owned_connector,        \* a MockConnector a caller owns and drives directly
    lifecycle,              \* the connect and disconnect calls made on that connector, in order
    engine_pc,              \* where the Engine's owner is: new, initialized, shutting down, ...
    shutdown_signal,        \* Engine.shutdown_signal: Option<broadcast::Sender<()>>
    server_tasks,           \* Engine.server_tasks: the JoinHandles not yet awaited
    servers                 \* the spawned protocol server tasks, in spawn order

\* The variables of the calls made on the dispatcher, the planner and the executor
core_vars == <<connector_registry, type_to_connector, connector_capabilities,
               executor_registry, created, in_flight, dispatcher_lock>>

\* The variables of the connector driven directly
connector_vars == <<owned_connector, lifecycle>>

\* The variables of the engine's protocol servers
server_vars == <<engine_pc, shutdown_signal, server_tasks, servers>>

vars == <<connector_registry, type_to_connector, connector_capabilities,
          executor_registry, created, last, in_flight, dispatcher_lock,
          owned_connector, lifecycle, engine_pc, shutdown_signal, server_tasks, servers>>

\* ------------------------------------------------------------------ bounds

\* register_connector calls in one behaviour
MaxRegistrations == 2

\* Engine::execute_query calls under way at the same time on one shared engine
MaxInFlight == 2

\* connect and disconnect calls made on one connector in one behaviour
MaxLifecycleCalls == 3

\* The longest sequence of register_connector calls on one dispatcher
MaxRegistrationSequence == 3

\* The protocol adapters of one engine configuration (PostgreSQL, MySQL, SQLite)
MaxServers == 2

\* The client connections one protocol server accepts in one behaviour
MaxConnections == 2

\* ------------------------------------------------------------ Option, maps

NoneVal == [opt |-> "None"]

Some(x) == [opt |-> "Some", val |-> x]

IsSome(o) == o.opt = "Some"

EmptyMap == [k \in {} |-> 0]

\* HashMap::insert
MapInsert(m, k, v) == [x \in (DOMAIN m) \cup {k} |-> IF x = k THEN v ELSE m[x]]

\* HashMap::remove
MapRemove(m, k) == [x \in (DOMAIN m) \ {k} |-> m[x]]

\* -------------------------------------------------------------- Value, Row

VInteger(n) == [t |-> "Integer", i |-> n]

VText(s) == [t |-> "Text", s |-> s]

VBoolean(b) == [t |-> "Boolean", b |-> b]

\* Value::Float of a number, in hundredths
VFloat(h) == [t |-> "Float", nan |-> FALSE, f |-> h]

\* Value::Float(f64::NAN)
VFloatNaN == [t |-> "Float", nan |-> TRUE, f |-> 0]

VNull == [t |-> "Null"]

\* "Alice Johnson"
Txt_Alice == <<65, 108, 105, 99, 101, 32, 74, 111, 104, 110, 115, 111, 110>>

\* "Bob Smith"
Txt_Bob == <<66, 111, 98, 32, 83, 109, 105, 116, 104>>

\* "Charlie Brown"
Txt_Charlie == <<67, 104, 97, 114, 108, 105, 101, 32, 66, 114, 111, 119, 110>>

\* "alice@example.com"
Txt_alice_mail == <<97, 108, 105, 99, 101, 64, 101, 120, 97, 109, 112, 108, 101, 46, 99, 111, 109>>

\* "bob@example.com"
Txt_bob_mail == <<98, 111, 98, 64, 101, 120, 97, 109, 112, 108, 101, 46, 99, 111, 109>>

\* "Laptop"
Txt_Laptop == <<76, 97, 112, 116, 111, 112>>

\* "Coffee Mug"
Txt_Mug == <<67, 111, 102, 102, 101, 101, 32, 77, 117, 103>>

\* "Electronics"
Txt_Electronics == <<69, 108, 101, 99, 116, 114, 111, 110, 105, 99, 115>>

\* "Kitchen"
Txt_Kitchen == <<75, 105, 116, 99, 104, 101, 110>>

\* "Bo", "Al", "Cy", "Al" again: the names of a caller-supplied users table
Txt_Bo == <<66, 111>>

Txt_Al == <<65, 108>>

Txt_Cy == <<67, 121>>

ColumnMetadata(n, dt, nl) == [name |-> n, data_type |-> dt, nullable |-> nl]

\* MockConnector::initialize_test_data: the users and products tables
DefaultTestData ==
    [users |->
        [columns |-> << ColumnMetadata("id", "Integer", FALSE),
                        ColumnMetadata("name", "Text", FALSE),
                        ColumnMetadata("email", "Text", TRUE),
                        ColumnMetadata("age", "Integer", TRUE),
                        ColumnMetadata("active", "Boolean", FALSE) >>,
         rows |-> << <<VInteger(1), VText(Txt_Alice), VText(Txt_alice_mail), VInteger(30), VBoolean(TRUE)>>,
                     <<VInteger(2), VText(Txt_Bob), VText(Txt_bob_mail), VInteger(25), VBoolean(TRUE)>>,
                     <<VInteger(3), VText(Txt_Charlie), VNull, VInteger(35), VBoolean(FALSE)>> >>],
     products |->
        [columns |-> << ColumnMetadata("id", "Integer", FALSE),
                        ColumnMetadata("name", "Text", FALSE),
                        ColumnMetadata("price", "Float", FALSE),
                        ColumnMetadata("category", "Text", TRUE) >>,
         rows |-> << <<VInteger(1), VText(Txt_Laptop), VFloat(99999), VText(Txt_Electronics)>>,
                     <<VInteger(2), VText(Txt_Mug), VFloat(1250), VText(Txt_Kitchen)>> >>]]

\* The column type add_test_data_with_columns derives from a first-row value
DataTypeOf(v) == IF v.t = "Null" THEN "Text" ELSE v.t

\* MockConnector::add_test_data_with_columns(table, names, rows): the table it stores
TableWithColumns(names, rows) ==
    [columns |-> IF rows = <<>> THEN <<>>
                 ELSE [i \in 1..Len(rows[1]) |->
                          ColumnMetadata(IF i <= Len(names) THEN names[i]
                                         ELSE "column_" \o ToString(i - 1),
                                         DataTypeOf(rows[1][i]), TRUE)],
     rows |-> rows]

\* A MockConnector whose users and products tables were replaced through
\* add_test_data_with_columns; the new products table has a price that is not a number
CustomTestData ==
    [DefaultTestData EXCEPT
        !.users =
            TableWithColumns(<<"id", "name", "age">>,
                << <<VInteger(1), VText(Txt_Bo), VInteger(30)>>,
                   <<VInteger(2), VText(Txt_Al), VInteger(25)>>,
                   <<VInteger(3), VText(Txt_Cy), VNull>>,
                   <<VInteger(4), VText(Txt_Al), VInteger(35)>> >>),
        !.products =
            TableWithColumns(<<"id", "name", "price">>,
                << <<VInteger(1), VText(Txt_Laptop), VFloat(200)>>,
                   <<VInteger(2), VText(Txt_Mug), VFloatNaN>>,
                   <<VInteger(3), VText(Txt_Cy), VFloat(100)>> >>)]

\* The test_data map of a connector, by the tag the connector record carries
TestData(tag) ==
    CASE tag = "default" -> DefaultTestData
      [] tag = "custom" -> CustomTestData
      [] OTHER -> EmptyMap

\* ------------------------------------------------------- results and errors

\* An error message; `list` is the Debug-formatted list that follows the text, if any
Msg(text) == [text |-> text, list |-> {}]

\* Err(NirvError::<family>(<variant>(msg)))
Err(family, variant, msg) == [kind |-> "err", family |-> family, variant |-> variant, msg |-> msg]

\* Ok(QueryResult { columns, rows, affected_rows: None, .. }); the measured
\* execution_time is wall-clock time and is left out
OkResult(columns, rows) == [kind |-> "ok", columns |-> columns, rows |-> rows]

\* QueryResult::new()
EmptyResult == OkResult(<<>>, <<>>)

\* A call that unwinds with a panic instead of returning
Panicked(what) == [kind |-> "panic", what |-> what]

IsOk(r) == r.kind = "ok"

IsErr(r) == r.kind = "err"

\* ------------------------------------------------------------ query model

DataSource(object_type, identifier) ==
    [object_type |-> object_type, identifier |-> identifier, alias |-> NoneVal]

Column(name) == [name |-> name, alias |-> NoneVal, source |-> NoneVal]

Predicate(column, operator, value) == [column |-> column, operator |-> operator, value |-> value]

PInteger(n) == [t |-> "Integer", i |-> n]

PString(s) == [t |-> "String", s |-> s]

PNull == [t |-> "Null"]

\* PredicateValue::Number, in hundredths
PNumber(h) == [t |-> "Number", f |-> h]

OrderColumn(column, direction) == [column |-> column, direction |-> direction]

OrderBy(columns) == [columns |-> columns]

\* InternalQuery::new(operation)
NewInternalQuery(operation) ==
    [operation |-> operation, sources |-> <<>>, projections |-> <<>>, predicates |-> <<>>,
     joins |-> <<>>, ordering |-> NoneVal, limit |-> NoneVal]

ConnectorQuery(connector_type, query) ==
    [connector_type |-> connector_type, query |-> query, connection_params |-> EmptyMap]

\* ------------------------------------------------------------- connectors

\* A connector object: MockConnector::new() (optionally with a replaced users
\* table, optionally connected) or PostgresConnector::new(), which has no pool
\* and cannot connect without a server.  `id` is the object's identity.
MockConnector(id, connected, data) ==
    [id |-> id, impl |-> "MockConnector", connected |-> connected, test_data |-> data]

PostgresConnector(id) ==
    [id |-> id, impl |-> "PostgresConnector", connected |-> FALSE, test_data |-> "none"]

\* Connector::get_connector_type
GetConnectorType(c) == IF c.impl = "MockConnector" THEN "Mock" ELSE "PostgreSQL"

\* Connector::get_capabilities
GetCapabilities(c) ==
    IF c.impl = "MockConnector"
    THEN [supports_joins |-> FALSE, supports_aggregations |-> FALSE,
          supports_subqueries |-> FALSE, supports_transactions |-> FALSE,
          supports_schema_introspection |-> TRUE, max_concurrent_queries |-> Some(10)]
    ELSE [supports_joins |-> TRUE, supports_aggregations |-> TRUE,
          supports_subqueries |-> TRUE, supports_transactions |-> TRUE,
          supports_schema_introspection |-> TRUE, max_concurrent_queries |-> Some(10)]

\* Position of the first column called `name`, 0 when there is none
ColumnIndex(columns, name) ==
    LET hits == {i \in 1..Len(columns) : columns[i].name = name}
    IN IF hits = {} THEN 0 ELSE CHOOSE i \in hits : \A j \in hits : i <= j

\* evaluate_predicate, PredicateOperator::Equal
EvalEqual(value, pv) ==
    CASE value.t = "Integer" /\ pv.t = "Integer" -> value.i = pv.i
      [] value.t = "Text" /\ pv.t = "String" -> value.s = pv.s
      [] value.t = "Float" /\ pv.t = "Number" -> ~value.nan /\ value.f = pv.f
      [] value.t = "Boolean" /\ pv.t = "Boolean" -> value.b = pv.b
      [] value.t = "Null" /\ pv.t = "Null" -> TRUE
      [] OTHER -> FALSE

\* evaluate_predicate, PredicateOperator::GreaterThan
EvalGreaterThan(value, pv) ==
    CASE value.t = "Integer" /\ pv.t = "Integer" -> value.i > pv.i
      [] value.t = "Float" /\ pv.t = "Number" -> ~value.nan /\ value.f > pv.f
      [] OTHER -> FALSE

\* evaluate_predicate, PredicateOperator::LessThan
EvalLessThan(value, pv) ==
    CASE value.t = "Integer" /\ pv.t = "Integer" -> value.i < pv.i
      [] value.t = "Float" /\ pv.t = "Number" -> ~value.nan /\ value.f < pv.f
      [] OTHER -> FALSE

\* MockConnector::evaluate_predicate (LIKE, which goes through a regex, is not modelled)
EvaluatePredicate(value, operator, pv) ==
    CASE operator = "Equal" -> EvalEqual(value, pv)
      [] operator = "NotEqual" -> ~EvalEqual(value, pv)
      [] operator = "GreaterThan" -> EvalGreaterThan(value, pv)
      [] operator = "GreaterThanOrEqual" -> EvalGreaterThan(value, pv) \/ EvalEqual(value, pv)
      [] operator = "LessThan" -> EvalLessThan(value, pv)
      [] operator = "LessThanOrEqual" -> EvalLessThan(value, pv) \/ EvalEqual(value, pv)
      [] operator = "IsNull" -> value.t = "Null"
      [] operator = "IsNotNull" -> value.t # "Null"
      [] operator = "In" -> pv.t = "List" /\ \E k \in 1..Len(pv.l) : EvalEqual(value, pv.l[k])

\* Whether a row passes every predicate of the query (the closure in apply_filters)
RowPasses(row, columns, predicates) ==
    \A k \in 1..Len(predicates) :
        LET index == ColumnIndex(columns, predicates[k].column)
        IN /\ index # 0
           /\ index <= Len(row)
           /\ EvaluatePredicate(row[index], predicates[k].operator, predicates[k].value)

\* Iterator::filter(..).collect(): the subsequence of passing rows, in order
RECURSIVE FilterRows(_, _, _)
FilterRows(rows, columns, predicates) ==
    IF rows = <<>> THEN <<>>
    ELSE (IF RowPasses(Head(rows), columns, predicates) THEN <<Head(rows)>> ELSE <<>>)
         \o FilterRows(Tail(rows), columns, predicates)

\* MockConnector::apply_filters
ApplyFilters(c, rows, cq) ==
    IF cq.query.predicates = <<>> THEN rows
    ELSE IF cq.query.sources = <<>> THEN rows
    ELSE IF cq.query.sources[1].identifier \notin DOMAIN TestData(c.test_data) THEN rows
    ELSE FilterRows(rows, TestData(c.test_data)[cq.query.sources[1].identifier].columns,
                    cq.query.predicates)

\* MockConnector::execute_query
MockExecuteQuery(c, cq) ==
    IF ~c.connected
    THEN Err("Connector", "ConnectionFailed", Msg("Not connected"))
    ELSE IF cq.query.operation # "Select"
    THEN Err("Connector", "UnsupportedOperation",
             Msg("Operation " \o cq.query.operation \o " not supported by MockConnector"))
    ELSE IF cq.query.sources = <<>>
    THEN Err("Connector", "QueryExecutionFailed", Msg("No data source specified in query"))
    ELSE LET identifier == cq.query.sources[1].identifier
         IN IF identifier \in DOMAIN TestData(c.test_data)
            THEN LET table == TestData(c.test_data)[identifier]
                 IN OkResult(table.columns, ApplyFilters(c, table.rows, cq))
            ELSE Err("Connector", "QueryExecutionFailed",
                     Msg("Table '" \o identifier \o "' not found"))

\* PostgresConnector::execute_query on a connector that was never connected
PostgresExecuteQuery(c, cq) ==
    Err("Connector", "ConnectionFailed", Msg("Not connected"))

\* Connector::execute_query, dispatched on the implementation behind the trait object
ConnectorExecuteQuery(c, cq) ==
    IF c.impl = "MockConnector" THEN MockExecuteQuery(c, cq) ELSE PostgresExecuteQuery(c, cq)

\* The record of one Connector::execute_query invocation: the connector called,
\* what the call returned and whether it failed
ConnectorCall(c, cq) ==
    [id |-> c.id, returned |-> ConnectorExecuteQuery(c, cq),
     failed |-> IsErr(ConnectorExecuteQuery(c, cq))]

\* MockConnector::connect: the connector afterwards (the call returns Ok(()))
MockConnect(c) == [c EXCEPT !.connected = TRUE]

\* disconnect on a buggy build that reports success and keeps the connection flag
MockDisconnectStayingOpen(c) == c

\* MockConnector::disconnect: the connector afterwards (the call returns Ok(()))
MockDisconnect(c) == [c EXCEPT !.connected = FALSE]

\* MockConnector::get_schema; of the Schema only name and columns are kept
MockGetSchema(c, object_name) ==
    IF ~c.connected
    THEN Err("Connector", "ConnectionFailed", Msg("Not connected"))
    ELSE IF object_name \in DOMAIN TestData(c.test_data)
    THEN [kind |-> "ok",
          schema |-> [name |-> object_name,
                      columns |-> TestData(c.test_data)[object_name].columns]]
    ELSE Err("Connector", "SchemaRetrievalFailed",
             Msg("Object '" \o object_name \o "' not found"))

\* ------------------------------------------------------------- registries

\* Ok(()) of a call that returns no value
OkUnit == [kind |-> "ok"]

\* register on a buggy build that inserts before it looks for the name: the call
\* still fails for a name already present, but the new connector has replaced the old
RegistryRegisterReplacing(connectors, name, connector) ==
    IF name \in DOMAIN connectors
    THEN [res |-> Err("Dispatcher", "RegistrationFailed",
                      Msg("Connector '" \o name \o "' is already registered")),
          connectors |-> MapInsert(connectors, name, connector)]
    ELSE [res |-> OkUnit, connectors |-> MapInsert(connectors, name, connector)]

\* ConnectorRegistry::register: the outcome and the connectors map afterwards
RegistryRegister(connectors, name, connector) ==
    IF name \in DOMAIN connectors
    THEN [res |-> Err("Dispatcher", "RegistrationFailed",
                      Msg("Connector '" \o name \o "' is already registered")),
          connectors |-> connectors]
    ELSE [res |-> OkUnit, connectors |-> MapInsert(connectors, name, connector)]

\* ConnectorRegistry::get
RegistryGet(connectors, name) ==
    IF name \in DOMAIN connectors THEN Some(connectors[name]) ELSE NoneVal

\* ConnectorRegistry::unregister: the connector removed, if any, and the map afterwards
RegistryUnregister(connectors, name) ==
    [res |-> RegistryGet(connectors, name), connectors |-> MapRemove(connectors, name)]

\* ConnectorRegistry::len
RegistryLen(connectors) == Cardinality(DOMAIN connectors)

\* DataObjectTypeRegistry::register_type on a buggy build that overwrites an existing mapping
RegisterTypeOverwriting(ttc, caps, object_type, connector_name, capabilities) ==
    [res |-> OkUnit,
     type_to_connector |-> MapInsert(ttc, object_type, connector_name),
     connector_capabilities |-> MapInsert(caps, connector_name, capabilities)]

\* DataObjectTypeRegistry::register_type: the outcome and both maps afterwards
RegisterType(ttc, caps, object_type, connector_name, capabilities) ==
    IF object_type \in DOMAIN ttc
    THEN [res |-> Err("Dispatcher", "RegistrationFailed",
                      Msg("Data object type '" \o object_type \o "' is already registered")),
          type_to_connector |-> ttc,
          connector_capabilities |-> caps]
    ELSE [res |-> OkUnit,
          type_to_connector |-> MapInsert(ttc, object_type, connector_name),
          connector_capabilities |-> MapInsert(caps, connector_name, capabilities)]

\* DataObjectTypeRegistry::unregister_type: the name the type was mapped to, if any,
\* and both maps afterwards (only type_to_connector is written)
UnregisterType(ttc, caps, object_type) ==
    [res |-> IF object_type \in DOMAIN ttc THEN Some(ttc[object_type]) ELSE NoneVal,
     type_to_connector |-> MapRemove(ttc, object_type),
     connector_capabilities |-> caps]

\* DataObjectTypeRegistry::get_connector_for_type
GetConnectorForType(ttc, object_type) ==
    IF object_type \in DOMAIN ttc THEN Some(ttc[object_type]) ELSE NoneVal

\* DataObjectTypeRegistry::is_type_registered
IsTypeRegistered(ttc, object_type) == object_type \in DOMAIN ttc

\* DataObjectTypeRegistry::list_types: the keys, in no particular order
ListTypes(ttc) == DOMAIN ttc

\* --------------------------------------------------------------- dispatcher

\* The dispatcher's reduced ConnectorCapabilities, copied in register_connector
ReducedCapabilities(connector) ==
    LET c == GetCapabilities(connector)
    IN [supports_joins |-> c.supports_joins,
        supports_aggregations |-> c.supports_aggregations,
        supports_subqueries |-> c.supports_subqueries,
        max_concurrent_queries |-> c.max_concurrent_queries]

\* format!("{}_{}", object_type, self.connector_registry.len())
ConnectorName(object_type, len) == object_type \o "_" \o ToString(len)

\* register_connector on a build that computes the name given to the type registry
\* after the connector was stored, so the two registries disagree on the name
RegisterConnectorCallNamingAfterStore(connectors, ttc, caps, object_type, connector) ==
    LET connector_name == ConnectorName(object_type, RegistryLen(connectors))
        stored == RegistryRegister(connectors, connector_name, connector)
        typed == RegisterType(ttc, caps, object_type,
                              ConnectorName(object_type, RegistryLen(stored.connectors)),
                              ReducedCapabilities(connector))
    IN IF IsErr(stored.res)
       THEN [res |-> stored.res, connectors |-> connectors,
             type_to_connector |-> ttc, connector_capabilities |-> caps]
       ELSE [res |-> typed.res, connectors |-> stored.connectors,
             type_to_connector |-> typed.type_to_connector,
             connector_capabilities |-> typed.connector_capabilities]

\* register_connector on a build that names connectors by the number of registered
\* types alone, without the object type in the name
RegisterConnectorCallNumberedByTypes(connectors, ttc, caps, object_type, connector) ==
    LET connector_name == "connector_" \o ToString(Cardinality(DOMAIN ttc))
        stored == RegistryRegister(connectors, connector_name, connector)
        typed == RegisterType(ttc, caps, object_type, connector_name,
                              ReducedCapabilities(connector))
    IN IF IsErr(stored.res)
       THEN [res |-> stored.res, connectors |-> connectors,
             type_to_connector |-> ttc, connector_capabilities |-> caps]
       ELSE [res |-> typed.res, connectors |-> stored.connectors,
             type_to_connector |-> typed.type_to_connector,
             connector_capabilities |-> typed.connector_capabilities]

\* DefaultDispatcher::register_connector: the outcome and the three maps afterwards
RegisterConnectorCall(connectors, ttc, caps, object_type, connector) ==
    LET connector_name == ConnectorName(object_type, RegistryLen(connectors))
        stored == RegistryRegister(connectors, connector_name, connector)
        typed == RegisterType(ttc, caps, object_type, connector_name,
                              ReducedCapabilities(connector))
    IN IF IsErr(stored.res)
       THEN [res |-> stored.res, connectors |-> connectors,
             type_to_connector |-> ttc, connector_capabilities |-> caps]
       ELSE [res |-> typed.res, connectors |-> stored.connectors,
             type_to_connector |-> typed.type_to_connector,
             connector_capabilities |-> typed.connector_capabilities]

\* DefaultDispatcher::get_connector
GetConnector(connectors, ttc, object_type) ==
    IF object_type \in DOMAIN ttc THEN RegistryGet(connectors, ttc[object_type]) ELSE NoneVal

\* validate_data_sources on a buggy build that returns after looking at the first source
ValidateDataSourcesFirstOnly(ttc, sources) ==
    IF sources = <<>> \/ IsTypeRegistered(ttc, Head(sources).object_type) THEN OkUnit
    ELSE Err("Dispatcher", "UnregisteredObjectType",
             [text |-> "Data object type '" \o Head(sources).object_type
                       \o "' is not registered. Available types: ",
              list |-> ListTypes(ttc)])

\* DefaultDispatcher::validate_data_sources: Ok(()) or the error for the first unmapped source
RECURSIVE ValidateDataSources(_, _)
ValidateDataSources(ttc, sources) ==
    IF sources = <<>> THEN OkUnit
    ELSE IF ~IsTypeRegistered(ttc, Head(sources).object_type)
    THEN Err("Dispatcher", "UnregisteredObjectType",
             [text |-> "Data object type '" \o Head(sources).object_type
                       \o "' is not registered. Available types: ",
              list |-> ListTypes(ttc)])
    ELSE ValidateDataSources(ttc, Tail(sources))

\* create_connector_queries on a buggy build that tags every envelope ConnectorType::Mock
RECURSIVE CreateConnectorQueriesMockTagged(_, _, _, _)
CreateConnectorQueriesMockTagged(connectors, ttc, query, sources) ==
    IF sources = <<>> THEN [kind |-> "ok", queries |-> <<>>]
    ELSE IF ~IsSome(GetConnector(connectors, ttc, Head(sources).object_type))
    THEN Err("Dispatcher", "NoSuitableConnector", Msg(""))
    ELSE [kind |-> "ok",
          queries |-> <<ConnectorQuery("Mock", query)>>
                      \o CreateConnectorQueriesMockTagged(connectors, ttc, query,
                                                          Tail(sources)).queries]

\* DefaultDispatcher::create_connector_queries: Ok(envelopes) or the first error
RECURSIVE CreateConnectorQueries(_, _, _, _)
CreateConnectorQueries(connectors, ttc, query, sources) ==
    IF sources = <<>> THEN [kind |-> "ok", queries |-> <<>>]
    ELSE LET connector_name == GetConnectorForType(ttc, Head(sources).object_type)
         IN IF ~IsSome(connector_name)
            THEN Err("Dispatcher", "UnregisteredObjectType", Msg(Head(sources).object_type))
            ELSE LET connector == RegistryGet(connectors, connector_name.val)
                 IN IF ~IsSome(connector)
                    THEN Err("Dispatcher", "NoSuitableConnector", Msg(""))
                    ELSE LET rest == CreateConnectorQueries(connectors, ttc, query, Tail(sources))
                         IN IF IsErr(rest) THEN rest
                            ELSE [kind |-> "ok",
                                  queries |-> <<ConnectorQuery(GetConnectorType(connector.val), query)>>
                                              \o rest.queries]

\* route_query on a buggy build that answers a query without sources with no envelope
RouteQueryNoSourcesOk(connectors, ttc, query) ==
    IF query.sources = <<>> THEN [kind |-> "ok", queries |-> <<>>]
    ELSE IF IsErr(ValidateDataSources(ttc, query.sources))
    THEN ValidateDataSources(ttc, query.sources)
    ELSE IF Len(query.sources) > 1
    THEN Err("Dispatcher", "CrossConnectorJoinUnsupported", Msg(""))
    ELSE CreateConnectorQueries(connectors, ttc, query, query.sources)

\* route_query on a buggy build that lacks the check for more than one source
RouteQueryJoining(connectors, ttc, query) ==
    IF query.sources = <<>>
    THEN Err("Dispatcher", "RoutingFailed", Msg("No data sources found in query"))
    ELSE IF IsErr(ValidateDataSources(ttc, query.sources))
    THEN ValidateDataSources(ttc, query.sources)
    ELSE CreateConnectorQueries(connectors, ttc, query, query.sources)

\* DefaultDispatcher::route_query
RouteQuery(connectors, ttc, query) ==
    LET sources == query.sources
    IN IF sources = <<>>
       THEN Err("Dispatcher", "RoutingFailed", Msg("No data sources found in query"))
       ELSE IF IsErr(ValidateDataSources(ttc, sources))
       THEN ValidateDataSources(ttc, sources)
       ELSE IF Len(sources) > 1
       THEN Err("Dispatcher", "CrossConnectorJoinUnsupported", Msg(""))
       ELSE CreateConnectorQueries(connectors, ttc, query, sources)

\* execute_distributed_query on a buggy build that runs the first of several envelopes
ExecuteDistributedQueryFirstOfMany(connectors, ttc, queries) ==
    IF queries = <<>> THEN [res |-> EmptyResult, calls |-> <<>>]
    ELSE IF queries[1].query.sources = <<>>
    THEN [res |-> Panicked("index out of bounds"), calls |-> <<>>]
    ELSE LET connector == GetConnector(connectors, ttc, queries[1].query.sources[1].object_type)
         IN IF ~IsSome(connector)
            THEN [res |-> Err("Dispatcher", "UnregisteredObjectType",
                              Msg(queries[1].query.sources[1].object_type)),
                  calls |-> <<>>]
            ELSE [res |-> ConnectorExecuteQuery(connector.val, queries[1]),
                  calls |-> <<ConnectorCall(connector.val, queries[1])>>]

\* execute_distributed_query on a buggy build that truncates the connector's rows to
\* the limit of the query
ExecuteDistributedQueryLimiting(connectors, ttc, queries) ==
    IF queries = <<>> THEN [res |-> EmptyResult, calls |-> <<>>]
    ELSE IF Len(queries) > 1
    THEN [res |-> Err("Dispatcher", "CrossConnectorJoinUnsupported", Msg("")), calls |-> <<>>]
    ELSE IF queries[1].query.sources = <<>>
    THEN [res |-> Panicked("index out of bounds"), calls |-> <<>>]
    ELSE LET connector == GetConnector(connectors, ttc, queries[1].query.sources[1].object_type)
             limit == queries[1].query.limit
         IN IF ~IsSome(connector)
            THEN [res |-> Err("Dispatcher", "UnregisteredObjectType",
                              Msg(queries[1].query.sources[1].object_type)),
                  calls |-> <<>>]
            ELSE [res |-> IF IsOk(ConnectorExecuteQuery(connector.val, queries[1]))
                             /\ IsSome(limit)
                             /\ Len(ConnectorExecuteQuery(connector.val, queries[1]).rows) > limit.val
                          THEN [ConnectorExecuteQuery(connector.val, queries[1]) EXCEPT
                                   !.rows = SubSeq(@, 1, limit.val)]
                          ELSE ConnectorExecuteQuery(connector.val, queries[1]),
                  calls |-> <<ConnectorCall(connector.val, queries[1])>>]

\* DefaultDispatcher::execute_distributed_query: the outcome, and the ids of the
\* connectors whose execute_query it invoked, in call order
ExecuteDistributedQuery(connectors, ttc, queries) ==
    IF queries = <<>> THEN [res |-> EmptyResult, calls |-> <<>>]
    ELSE IF Len(queries) > 1
    THEN [res |-> Err("Dispatcher", "CrossConnectorJoinUnsupported", Msg("")), calls |-> <<>>]
    ELSE LET connector_query == queries[1]
         IN IF connector_query.query.sources = <<>>
            THEN \* connector_query.query.sources[0] indexes an empty Vec
                 [res |-> Panicked("index out of bounds"), calls |-> <<>>]
            ELSE LET object_type == connector_query.query.sources[1].object_type
                     connector_name == GetConnectorForType(ttc, object_type)
                 IN IF ~IsSome(connector_name)
                    THEN [res |-> Err("Dispatcher", "UnregisteredObjectType", Msg(object_type)),
                          calls |-> <<>>]
                    ELSE LET connector == RegistryGet(connectors, connector_name.val)
                         IN IF ~IsSome(connector)
                            THEN [res |-> Err("Dispatcher", "NoSuitableConnector", Msg("")),
                                  calls |-> <<>>]
                            ELSE [res |-> ConnectorExecuteQuery(connector.val, connector_query),
                                  calls |-> <<ConnectorCall(connector.val, connector_query)>>]

\* ------------------------------------------------------------------ parser
\* The parser's input is what sqlparser returns for the text under each of the
\* four dialects: a failure, or the list of statements as syntax trees.

\* Ok(value) of a parser helper
OkVal(v) == [kind |-> "ok", val |-> v]

ParseErr(variant, text) == Err("QueryParsing", variant, Msg(text))

\* str::to_lowercase on the function names the inputs use
ToLowercase(name) == IF name \in {"SOURCE", "Source"} THEN "source" ELSE name

\* Concatenation of the pieces of a string
RECURSIVE Concat(_)
Concat(pieces) == IF pieces = <<>> THEN "" ELSE Head(pieces) \o Concat(Tail(pieces))

\* spec.find('.'): the position of the first "." piece, 0 when there is none
FindDot(spec) ==
    LET dots == {i \in 1..Len(spec) : spec[i] = "."}
    IN IF dots = {} THEN 0 ELSE CHOOSE i \in dots : \A j \in dots : i <= j

\* DefaultQueryParser::extract_source_from_function_args
ExtractSourceFromFunctionArgs(args) ==
    IF Len(args) # 1
    THEN ParseErr("InvalidSourceFormat", "source() function requires exactly one argument")
    ELSE IF args[1].arg # "SingleQuotedString"
    THEN ParseErr("InvalidSourceFormat", "source() function argument must be a string literal")
    ELSE LET spec == args[1].spec
             dot_pos == FindDot(spec)
         IN IF dot_pos # 0
            THEN OkVal(<<Concat(SubSeq(spec, 1, dot_pos - 1)),
                         Concat(SubSeq(spec, dot_pos + 1, Len(spec)))>>)
            ELSE OkVal(<<"table", Concat(spec)>>)

\* DefaultQueryParser::extract_source_from_table
ExtractSourceFromTable(table) ==
    CASE table.tf = "Table" ->
            IF ToLowercase(table.name) = "source" /\ IsSome(table.args)
            THEN LET source_spec == ExtractSourceFromFunctionArgs(table.args.val)
                 IN IF IsErr(source_spec) THEN source_spec
                    ELSE OkVal([object_type |-> source_spec.val[1],
                                identifier |-> source_spec.val[2],
                                alias |-> table.alias])
            ELSE OkVal([object_type |-> "table", identifier |-> table.name, alias |-> table.alias])
      [] table.tf = "Derived" ->
            OkVal([object_type |-> "subquery", identifier |-> "derived", alias |-> table.alias])
      [] table.tf = "Function" ->
            IF ToLowercase(table.name) = "source"
            THEN LET source_spec == ExtractSourceFromFunctionArgs(table.args.val)
                 IN IF IsErr(source_spec) THEN source_spec
                    ELSE OkVal([object_type |-> source_spec.val[1],
                                identifier |-> source_spec.val[2],
                                alias |-> table.alias])
            ELSE ParseErr("UnsupportedFeature",
                          "Function " \o table.name \o " not supported in FROM clause")
      [] OTHER -> ParseErr("UnsupportedFeature", "Unsupported table reference type")

\* The loop of extract_sources: one source per FROM item, taken from its relation
RECURSIVE ExtractSourcesLoop(_)
ExtractSourcesLoop(from) ==
    IF from = <<>> THEN OkVal(<<>>)
    ELSE LET source == ExtractSourceFromTable(Head(from).relation)
         IN IF IsErr(source) THEN source
            ELSE LET rest == ExtractSourcesLoop(Tail(from))
                 IN IF IsErr(rest) THEN rest ELSE OkVal(<<source.val>> \o rest.val)

\* DefaultQueryParser::extract_sources (of a FROM clause)
ExtractSources(from) ==
    LET sources == ExtractSourcesLoop(from)
    IN IF IsErr(sources) THEN sources
       ELSE IF sources.val = <<>> THEN Err("QueryParsing", "MissingSource", Msg(""))
       ELSE sources

\* DefaultQueryParser::extract_column_from_expr
ExtractColumnFromExpr(expr, alias) ==
    CASE expr.e = "Identifier" -> OkVal([name |-> expr.value, alias |-> alias, source |-> NoneVal])
      [] expr.e = "CompoundIdentifier" ->
            IF Len(expr.idents) = 2
            THEN OkVal([name |-> expr.idents[2], alias |-> alias, source |-> Some(expr.idents[1])])
            ELSE OkVal([name |-> expr.idents[Len(expr.idents)], alias |-> alias, source |-> NoneVal])
      [] expr.e = "Function" ->
            IF ToLowercase(expr.name) = "source"
            THEN ParseErr("InvalidSourceFormat",
                          "source() function should be used in FROM clause, not SELECT")
            ELSE OkVal([name |-> expr.name, alias |-> alias, source |-> NoneVal])
      [] OTHER -> OkVal([name |-> "expr", alias |-> alias, source |-> NoneVal])

\* DefaultQueryParser::extract_projections
RECURSIVE ExtractProjections(_)
ExtractProjections(projection) ==
    IF projection = <<>> THEN OkVal(<<>>)
    ELSE LET item == Head(projection)
             column ==
                CASE item.item = "UnnamedExpr" -> ExtractColumnFromExpr(item.expr, NoneVal)
                  [] item.item = "ExprWithAlias" -> ExtractColumnFromExpr(item.expr, Some(item.alias))
                  [] item.item = "Wildcard" ->
                        OkVal([name |-> "*", alias |-> NoneVal, source |-> NoneVal])
                  [] item.item = "QualifiedWildcard" ->
                        OkVal([name |-> "*", alias |-> NoneVal, source |-> Some(item.object_name)])
         IN IF IsErr(column) THEN column
            ELSE LET rest == ExtractProjections(Tail(projection))
                 IN IF IsErr(rest) THEN rest ELSE OkVal(<<column.val>> \o rest.val)

\* DefaultQueryParser::extract_column_name_from_expr
ExtractColumnNameFromExpr(expr) ==
    CASE expr.e = "Identifier" -> OkVal(expr.value)
      [] expr.e = "CompoundIdentifier" ->
            IF Len(expr.idents) >= 2
            THEN OkVal(expr.idents[1] \o "." \o expr.idents[2])
            ELSE OkVal(expr.idents[1])
      [] OTHER -> ParseErr("InvalidSyntax", "Expected column identifier in predicate")

\* DefaultQueryParser::convert_binary_operator
ConvertBinaryOperator(op) ==
    CASE op = "Eq" -> OkVal("Equal")
      [] op = "NotEq" -> OkVal("NotEqual")
      [] op = "Gt" -> OkVal("GreaterThan")
      [] op = "GtEq" -> OkVal("GreaterThanOrEqual")
      [] op = "Lt" -> OkVal("LessThan")
      [] op = "LtEq" -> OkVal("LessThanOrEqual")
      [] OTHER -> ParseErr("UnsupportedFeature", "Operator " \o op \o " not supported")

\* DefaultQueryParser::convert_sql_value
ConvertSqlValue(value) ==
    CASE value.v \in {"SingleQuotedString", "DoubleQuotedString"} -> OkVal(PString(value.s))
      [] value.v = "Number" ->
            IF value.integer THEN OkVal(PInteger(value.n))
            ELSE OkVal([t |-> "Number", f |-> value.n])
      [] value.v = "Boolean" -> OkVal([t |-> "Boolean", b |-> value.b])
      [] value.v = "Null" -> OkVal(PNull)
      [] OTHER -> ParseErr("UnsupportedFeature", "Value type not supported")

\* DefaultQueryParser::extract_predicate_value_from_expr
ExtractPredicateValueFromExpr(expr) ==
    CASE expr.e = "Value" -> ConvertSqlValue(expr.value)
      [] expr.e = "Identifier" -> OkVal([t |-> "String", s |-> expr.value])
      [] OTHER -> ParseErr("UnsupportedFeature",
                           "Complex expressions in predicates not yet supported")

\* DefaultQueryParser::create_predicate_from_binary_op
CreatePredicateFromBinaryOp(left, op, right) ==
    LET column == ExtractColumnNameFromExpr(left)
        operator == ConvertBinaryOperator(op)
        value == ExtractPredicateValueFromExpr(right)
    IN IF IsErr(column) THEN column
       ELSE IF IsErr(operator) THEN operator
       ELSE IF IsErr(value) THEN value
       ELSE OkVal(Predicate(column.val, operator.val, value.val))

\* DefaultQueryParser::extract_predicates_recursive: Ok(the predicates it pushes) or the error
RECURSIVE ExtractPredicatesRecursive(_)
ExtractPredicatesRecursive(expr) ==
    CASE expr.e = "BinaryOp" ->
            IF expr.op \in {"And", "Or"}
            THEN LET l == ExtractPredicatesRecursive(expr.left)
                 IN IF IsErr(l) THEN l
                    ELSE LET r == ExtractPredicatesRecursive(expr.right)
                         IN IF IsErr(r) THEN r ELSE OkVal(l.val \o r.val)
            ELSE LET predicate == CreatePredicateFromBinaryOp(expr.left, expr.op, expr.right)
                 IN IF IsErr(predicate) THEN predicate ELSE OkVal(<<predicate.val>>)
      [] expr.e \in {"IsNull", "IsNotNull"} ->
            LET column == ExtractColumnNameFromExpr(expr.expr)
            IN IF IsErr(column) THEN column
               ELSE OkVal(<<Predicate(column.val, expr.e, PNull)>>)
      [] OTHER -> OkVal(<<>>)

\* DefaultQueryParser::extract_order_by
RECURSIVE ExtractOrderByColumns(_)
ExtractOrderByColumns(order_by) ==
    IF order_by = <<>> THEN OkVal(<<>>)
    ELSE LET column_name == ExtractColumnNameFromExpr(Head(order_by).expr)
             asc == IF IsSome(Head(order_by).asc) THEN Head(order_by).asc.val ELSE TRUE
         IN IF IsErr(column_name) THEN column_name
            ELSE LET rest == ExtractOrderByColumns(Tail(order_by))
                 IN IF IsErr(rest) THEN rest
                    ELSE OkVal(<<OrderColumn(column_name.val,
                                             IF asc THEN "Ascending" ELSE "Descending")>>
                               \o rest.val)

\* DefaultQueryParser::extract_limit
ExtractLimit(limit_expr) ==
    IF limit_expr.e = "Value" /\ limit_expr.value.v = "Number"
    THEN IF limit_expr.value.integer /\ limit_expr.value.n >= 0
         THEN OkVal(limit_expr.value.n)
         ELSE ParseErr("InvalidSyntax", "Invalid LIMIT value")
    ELSE ParseErr("InvalidSyntax", "LIMIT must be a number")

\* DefaultQueryParser::convert_query
ConvertQuery(query) ==
    IF query.body # "Select"
    THEN ParseErr("UnsupportedFeature", "Only SELECT queries are supported")
    ELSE LET projections == ExtractProjections(query.projection)
             sources == ExtractSources(query.from)
             predicates == IF IsSome(query.selection)
                           THEN ExtractPredicatesRecursive(query.selection.val)
                           ELSE OkVal(<<>>)
             ordering == IF query.order_by # <<>>
                         THEN ExtractOrderByColumns(query.order_by)
                         ELSE OkVal(<<>>)
             limit == IF IsSome(query.limit) THEN ExtractLimit(query.limit.val) ELSE OkVal(0)
         IN IF IsErr(projections) THEN projections
            ELSE IF IsErr(sources) THEN sources
            ELSE IF IsErr(predicates) THEN predicates
            ELSE IF IsErr(ordering) THEN ordering
            ELSE IF IsErr(limit) THEN limit
            ELSE [kind |-> "ok",
                  query |-> [operation |-> "Select",
                             sources |-> sources.val,
                             projections |-> projections.val,
                             predicates |-> predicates.val,
                             joins |-> <<>>,
                             ordering |-> IF query.order_by # <<>>
                                          THEN Some(OrderBy(ordering.val)) ELSE NoneVal,
                             limit |-> IF IsSome(query.limit) THEN Some(limit.val) ELSE NoneVal]]

\* DefaultQueryParser::try_parse_with_dialects: the first statement of the first
\* dialect that parses the text into at least one statement
TryParseWithDialects(sql) ==
    LET accepted == {d \in 1..Len(sql) : sql[d].parsed /\ sql[d].statements # <<>>}
    IN IF accepted = {}
       THEN ParseErr("InvalidSyntax", "Failed to parse SQL with any supported dialect")
       ELSE OkVal(sql[CHOOSE d \in accepted : \A o \in accepted : d <= o].statements[1])

\* DefaultQueryParser::parse, which parse_sql delegates to
ParseSql(sql) ==
    LET statement == TryParseWithDialects(sql)
    IN IF IsErr(statement) THEN statement
       ELSE IF statement.val.stmt = "Query" THEN ConvertQuery(statement.val)
       ELSE ParseErr("UnsupportedFeature", "Only SELECT queries are currently supported")

\* ------------------------------------------------------------------ engine

\* Engine::execute_query: parse, route through the dispatcher, execute the envelopes
EngineExecuteQuery(connectors, ttc, sql) ==
    LET internal_query == ParseSql(sql)
    IN IF IsErr(internal_query) THEN [res |-> internal_query, calls |-> <<>>]
       ELSE LET connector_queries == RouteQuery(connectors, ttc, internal_query.query)
            IN IF IsErr(connector_queries) THEN [res |-> connector_queries, calls |-> <<>>]
               ELSE ExecuteDistributedQuery(connectors, ttc, connector_queries.queries)

\* ----------------------------------------------------------------- planner
\* Costs are f64 in the source; here they are counted in tenths.

InternalErr(text) == Err("Internal", "Internal", Msg(text))

\* DefaultQueryPlanner::new(): base 1.0, predicate multiplier 0.1, sort 0.5, limit 0.1
DefaultQueryPlanner ==
    [base_scan_cost |-> 10, predicate_cost_multiplier |-> 1, sort_cost |-> 5, limit_cost |-> 1]

\* DefaultQueryPlanner::with_costs
PlannerWithCosts(base, multiplier, sort, limit) ==
    [base_scan_cost |-> base, predicate_cost_multiplier |-> multiplier,
     sort_cost |-> sort, limit_cost |-> limit]

\* ExecutionPlan::new()
NewExecutionPlan == [nodes |-> <<>>, estimated_cost |-> 0]

\* ExecutionPlan::root_node: the last node, if any
RootNode(plan) ==
    IF plan.nodes = <<>> THEN NoneVal ELSE Some(plan.nodes[Len(plan.nodes)])

\* validate_query on a buggy build that lets a query with several sources through
ValidateQueryAnySources(query) ==
    IF query.sources = <<>> THEN InternalErr("No data sources found in query") ELSE OkUnit

\* DefaultQueryPlanner::validate_query
ValidateQuery(query) ==
    IF query.sources = <<>> THEN InternalErr("No data sources found in query")
    ELSE IF Len(query.sources) > 1 THEN InternalErr("Multi-source queries not supported in MVP")
    ELSE OkUnit

\* DefaultQueryPlanner::create_table_scan_node
CreateTableScanNode(query) ==
    LET source == query.sources[1]
    IN [node |-> "TableScan",
        source |-> source,
        projections |-> IF query.projections = <<>>
                        THEN <<[name |-> "*", alias |-> NoneVal, source |-> source.alias]>>
                        ELSE query.projections,
        predicates |-> query.predicates]

\* DefaultQueryPlanner::add_limit_node
AddLimitNode(planner, plan, query) ==
    IF IsSome(query.limit) /\ plan.nodes # <<>>
    THEN [nodes |-> Append(plan.nodes,
                           [node |-> "Limit", count |-> query.limit.val,
                            input |-> plan.nodes[Len(plan.nodes)]]),
          estimated_cost |-> plan.estimated_cost + planner.limit_cost]
    ELSE plan

\* DefaultQueryPlanner::add_sort_node
AddSortNode(planner, plan, query) ==
    IF IsSome(query.ordering) /\ plan.nodes # <<>>
    THEN [nodes |-> Append(plan.nodes,
                           [node |-> "Sort", order_by |-> query.ordering.val,
                            input |-> plan.nodes[Len(plan.nodes)]]),
          estimated_cost |-> plan.estimated_cost + planner.sort_cost]
    ELSE plan

\* DefaultQueryPlanner::calculate_cost
CalculateCost(planner, query) ==
    planner.base_scan_cost
    + Len(query.predicates) * planner.predicate_cost_multiplier
    + (IF IsSome(query.ordering) THEN planner.sort_cost ELSE 0)
    + (IF IsSome(query.limit) THEN planner.limit_cost ELSE 0)

\* create_execution_plan on a buggy build that wraps the scan in the Limit before the Sort
CreateExecutionPlanLimitFirst(planner, query) ==
    IF IsErr(ValidateQuery(query)) THEN ValidateQuery(query)
    ELSE LET scanned == [nodes |-> <<CreateTableScanNode(query)>>,
                         estimated_cost |-> CalculateCost(planner, query)]
             limited == AddLimitNode(planner, scanned, query)
         IN [kind |-> "ok", plan |-> AddSortNode(planner, limited, query)]

\* DefaultQueryPlanner::create_execution_plan
CreateExecutionPlan(planner, query) ==
    IF IsErr(ValidateQuery(query)) THEN ValidateQuery(query)
    ELSE LET scanned == [nodes |-> <<CreateTableScanNode(query)>>,
                         estimated_cost |-> CalculateCost(planner, query)]
             sorted == AddSortNode(planner, scanned, query)
         IN [kind |-> "ok", plan |-> AddLimitNode(planner, sorted, query)]

\* DefaultQueryPlanner::estimate_cost
EstimateCost(planner, query) ==
    IF IsErr(ValidateQuery(query)) THEN ValidateQuery(query)
    ELSE [kind |-> "ok", cost |-> CalculateCost(planner, query)]

\* ---------------------------------------------------------------- executor

\* Ordering::Less / Equal / Greater as -1 / 0 / 1, on integers
CmpInt(a, b) == IF a < b THEN -1 ELSE IF a > b THEN 1 ELSE 0

\* String::cmp: bytewise lexicographic order
RECURSIVE CmpText(_, _)
CmpText(a, b) ==
    IF a = <<>> /\ b = <<>> THEN 0
    ELSE IF a = <<>> THEN -1
    ELSE IF b = <<>> THEN 1
    ELSE IF Head(a) # Head(b) THEN CmpInt(Head(a), Head(b))
    ELSE CmpText(Tail(a), Tail(b))

\* The order of the Debug renderings of two values of different variants: each
\* rendering starts with its variant name, so the names decide
DebugRank(v) ==
    CASE v.t = "Boolean" -> 1
      [] v.t = "Float" -> 2
      [] v.t = "Integer" -> 3
      [] v.t = "Text" -> 4

\* DefaultQueryExecutor::compare_values
CompareValues(a, b) ==
    CASE a.t = "Null" /\ b.t = "Null" -> 0
      [] a.t = "Null" /\ b.t # "Null" -> -1
      [] a.t # "Null" /\ b.t = "Null" -> 1
      [] a.t = "Integer" /\ b.t = "Integer" -> CmpInt(a.i, b.i)
      [] a.t = "Float" /\ b.t = "Float" ->
            \* partial_cmp(..).unwrap_or(Ordering::Equal): a NaN compares equal to anything
            IF a.nan \/ b.nan THEN 0 ELSE CmpInt(a.f, b.f)
      [] a.t = "Text" /\ b.t = "Text" -> CmpText(a.s, b.s)
      [] a.t = "Boolean" /\ b.t = "Boolean" ->
            CmpInt(IF a.b THEN 1 ELSE 0, IF b.b THEN 1 ELSE 0)
      [] OTHER -> CmpInt(DebugRank(a), DebugRank(b))

\* The comparator apply_sort hands to sort_by
RowCompare(a, b, column_index, direction) ==
    LET val_a == IF column_index <= Len(a) THEN a[column_index] ELSE VNull
        val_b == IF column_index <= Len(b) THEN b[column_index] ELSE VNull
        comparison == CompareValues(val_a, val_b)
    IN IF direction = "Ascending" THEN comparison ELSE -comparison

\* One step of the insertion sort sort_by runs on a short slice: the row is put at the
\* tail and moves left past every row it compares less than, stopping at the first
\* row it does not compare less than
RECURSIVE InsertRow(_, _, _, _)
InsertRow(row, sorted, column_index, direction) ==
    IF sorted = <<>> THEN <<row>>
    ELSE IF RowCompare(row, sorted[Len(sorted)], column_index, direction) = -1
    THEN InsertRow(row, SubSeq(sorted, 1, Len(sorted) - 1), column_index, direction)
         \o <<sorted[Len(sorted)]>>
    ELSE sorted \o <<row>>

\* slice::sort_by: a stable sort; the slices here are short enough for it to be the
\* insertion sort alone
RECURSIVE SortRows(_, _, _)
SortRows(rows, column_index, direction) ==
    IF rows = <<>> THEN <<>>
    ELSE InsertRow(rows[Len(rows)], SortRows(SubSeq(rows, 1, Len(rows) - 1), column_index, direction),
                   column_index, direction)

\* apply_limit on a buggy build that drops rows from the front instead of the back
ExecutorApplyLimitKeepingLast(result, count) ==
    IF Len(result.rows) > count
    THEN [result EXCEPT !.rows = SubSeq(result.rows, Len(result.rows) - count + 1,
                                        Len(result.rows))]
    ELSE result

\* DefaultQueryExecutor::apply_limit
ExecutorApplyLimit(result, count) ==
    IF Len(result.rows) > count
    THEN [result EXCEPT !.rows = SubSeq(result.rows, 1, count)]
    ELSE result

\* DefaultQueryExecutor::apply_sort
ApplySort(result, order_by) ==
    IF order_by.columns = <<>> THEN result
    ELSE LET sort_column == order_by.columns[1]
             column_index == ColumnIndex(result.columns, sort_column.column)
         IN IF column_index = 0
            THEN InternalErr("Sort column '" \o sort_column.column \o "' not found in result")
            ELSE [result EXCEPT !.rows = SortRows(result.rows, column_index, sort_column.direction)]

\* DefaultQueryExecutor::apply_projection
ApplyProjection(result, columns) == result

\* DefaultQueryExecutor::format_result, without the execution time
FormatResult(result) ==
    IF result.columns = <<>> /\ result.rows # <<>>
    THEN [result EXCEPT !.columns =
            [i \in 1..Len(result.rows[1]) |->
                ColumnMetadata("column_" \o ToString(i - 1), DataTypeOf(result.rows[1][i]), TRUE)]]
    ELSE result

\* The connector execute_table_scan settles on: the first of the three guessed names
\* the executor's registry holds
GuessConnector(registry, object_type) ==
    LET possible_names == <<object_type, object_type \o "_" \o ToString(0),
                            object_type \o "_connector">>
        found == {k \in 1..Len(possible_names) : possible_names[k] \in DOMAIN registry}
    IN IF found = {} THEN NoneVal
       ELSE Some(registry[possible_names[CHOOSE k \in found : \A o \in found : k <= o]])

\* DefaultQueryExecutor::execute_table_scan: the outcome, the connectors called and
\* the steps taken, in the order they completed (the connector's execute_query is
\* awaited before the function returns)
ExecuteTableScan(registry_opt, source, projections, predicates) ==
    IF ~IsSome(registry_opt)
    THEN [res |-> InternalErr("No connector registry configured"), calls |-> <<>>,
          steps |-> <<>>]
    ELSE LET connector == GuessConnector(registry_opt.val, source.object_type)
         IN IF ~IsSome(connector)
            THEN [res |-> InternalErr("No connector found for type: " \o source.object_type),
                  calls |-> <<>>, steps |-> <<>>]
            ELSE LET internal_query ==
                        [NewInternalQuery("Select") EXCEPT !.sources = <<source>>,
                                                           !.projections = projections,
                                                           !.predicates = predicates]
                     connector_query ==
                        ConnectorQuery(GetConnectorType(connector.val), internal_query)
                 IN [res |-> ConnectorExecuteQuery(connector.val, connector_query),
                     calls |-> <<ConnectorCall(connector.val, connector_query)>>,
                     steps |-> <<"execute_query">>]

\* execute_node on a buggy build that asks the connector once more when the scan failed
RECURSIVE ExecuteNodeRetrying(_, _)
ExecuteNodeRetrying(registry_opt, node) ==
    CASE node.node = "TableScan" ->
            LET first == ExecuteTableScan(registry_opt, node.source, node.projections, node.predicates)
                second == ExecuteTableScan(registry_opt, node.source, node.projections, node.predicates)
            IN IF IsErr(first.res) /\ first.calls # <<>>
               THEN [res |-> second.res, calls |-> first.calls \o second.calls,
                     steps |-> first.steps \o second.steps]
               ELSE first
      [] node.node = "Limit" ->
            LET input_result == ExecuteNodeRetrying(registry_opt, node.input)
            IN IF IsErr(input_result.res) THEN input_result
               ELSE [res |-> ExecutorApplyLimit(input_result.res, node.count),
                     calls |-> input_result.calls,
                     steps |-> input_result.steps \o <<"apply_limit">>]
      [] node.node = "Sort" ->
            LET input_result == ExecuteNodeRetrying(registry_opt, node.input)
            IN IF IsErr(input_result.res) THEN input_result
               ELSE [res |-> ApplySort(input_result.res, node.order_by),
                     calls |-> input_result.calls,
                     steps |-> input_result.steps \o <<"apply_sort">>]
      [] node.node = "Projection" ->
            LET input_result == ExecuteNodeRetrying(registry_opt, node.input)
            IN IF IsErr(input_result.res) THEN input_result
               ELSE [res |-> ApplyProjection(input_result.res, node.columns),
                     calls |-> input_result.calls,
                     steps |-> input_result.steps \o <<"apply_projection">>]

\* DefaultQueryExecutor::execute_node: the outcome, the connectors called and the steps
\* taken in order. Each arm awaits its input's execute_node, leaves with its error (?)
\* and only then applies its own step.
RECURSIVE ExecuteNode(_, _)
ExecuteNode(registry_opt, node) ==
    CASE node.node = "TableScan" ->
            ExecuteTableScan(registry_opt, node.source, node.projections, node.predicates)
      [] node.node = "Limit" ->
            LET input_result == ExecuteNode(registry_opt, node.input)
            IN IF IsErr(input_result.res) THEN input_result
               ELSE [res |-> ExecutorApplyLimit(input_result.res, node.count),
                     calls |-> input_result.calls,
                     steps |-> input_result.steps \o <<"apply_limit">>]
      [] node.node = "Sort" ->
            LET input_result == ExecuteNode(registry_opt, node.input)
            IN IF IsErr(input_result.res) THEN input_result
               ELSE [res |-> ApplySort(input_result.res, node.order_by),
                     calls |-> input_result.calls,
                     steps |-> input_result.steps \o <<"apply_sort">>]
      [] node.node = "Projection" ->
            LET input_result == ExecuteNode(registry_opt, node.input)
            IN IF IsErr(input_result.res) THEN input_result
               ELSE [res |-> ApplyProjection(input_result.res, node.columns),
                     calls |-> input_result.calls,
                     steps |-> input_result.steps \o <<"apply_projection">>]

\* execute_plan on a buggy build that runs every entry of plan.nodes in turn (each
\* entry owns its whole input chain) and returns the outcome of the last one
RECURSIVE ExecutePlanEveryNode(_, _)
ExecutePlanEveryNode(registry_opt, plan) ==
    IF plan.nodes = <<>> THEN [res |-> FormatResult(EmptyResult), calls |-> <<>>, steps |-> <<>>]
    ELSE LET earlier == IF Len(plan.nodes) = 1 THEN [calls |-> <<>>, steps |-> <<>>]
                        ELSE ExecutePlanEveryNode(registry_opt,
                                [plan EXCEPT !.nodes = SubSeq(plan.nodes, 1, Len(plan.nodes) - 1)])
             final_result == ExecuteNode(registry_opt, RootNode(plan).val)
         IN [res |-> IF IsErr(final_result.res) THEN final_result.res
                     ELSE FormatResult(final_result.res),
             calls |-> earlier.calls \o final_result.calls,
             steps |-> earlier.steps \o final_result.steps]

\* DefaultQueryExecutor::execute_plan
ExecutePlan(registry_opt, plan) ==
    IF plan.nodes = <<>> THEN [res |-> FormatResult(EmptyResult), calls |-> <<>>, steps |-> <<>>]
    ELSE LET final_result == ExecuteNode(registry_opt, RootNode(plan).val)
         IN IF IsErr(final_result.res) THEN final_result
            ELSE [res |-> FormatResult(final_result.res), calls |-> final_result.calls,
                  steps |-> final_result.steps]

\* ------------------------------------------------------------------ inputs

\* The object types callers register connectors for
ObjectTypes == {"mock", "table"}

\* The connector objects a caller can hand to register_connector
NewConnectors(id) ==
    {MockConnector(id, TRUE, "default"), MockConnector(id, FALSE, "default"), PostgresConnector(id)}

\* The source lists of the queries handed to the dispatcher and the planner
SourceLists ==
    { <<>>,
      <<DataSource("mock", "users")>>,
      <<DataSource("mock", "products")>>,
      <<DataSource("mock", "missing")>>,
      <<DataSource("table", "users")>>,
      <<DataSource("unregistered", "table")>>,
      <<DataSource("mock", "users"), DataSource("mock", "products")>>,
      <<DataSource("mock", "users"), DataSource("table", "users")>>,
      <<DataSource("mock", "users"), DataSource("unregistered", "table")>>,
      <<DataSource("unregistered", "table"), DataSource("mock", "users")>> }

AgeAbove25 == Predicate("age", "GreaterThan", PInteger(25))

\* price > 10, as convert_sql_value builds it from the literal 10
PriceAbove10 == Predicate("price", "GreaterThan", PInteger(10))

PriceAscending == OrderBy(<<OrderColumn("price", "Ascending")>>)

AgeDescending == OrderBy(<<OrderColumn("age", "Descending")>>)

NameDescending == OrderBy(<<OrderColumn("name", "Descending")>>)

NameAscending == OrderBy(<<OrderColumn("name", "Ascending")>>)

\* Predicates, ordering and limit of the queries
QueryShapes ==
    { [predicates |-> <<>>, ordering |-> NoneVal, limit |-> NoneVal],
      [predicates |-> <<AgeAbove25>>, ordering |-> NoneVal, limit |-> NoneVal],
      [predicates |-> <<>>, ordering |-> Some(NameDescending), limit |-> Some(2)],
      [predicates |-> <<>>, ordering |-> Some(NameAscending), limit |-> NoneVal],
      [predicates |-> <<>>, ordering |-> NoneVal, limit |-> Some(2)],
      [predicates |-> <<AgeAbove25>>, ordering |-> Some(NameAscending), limit |-> Some(1)],
      [predicates |-> <<PriceAbove10>>, ordering |-> NoneVal, limit |-> NoneVal],
      [predicates |-> <<>>, ordering |-> Some(PriceAscending), limit |-> NoneVal],
      [predicates |-> <<>>, ordering |-> Some(AgeDescending), limit |-> Some(5)] }

\* The query models callers build directly
Queries ==
    { [NewInternalQuery("Select") EXCEPT !.sources = sl, !.predicates = sh.predicates,
                                        !.ordering = sh.ordering, !.limit = sh.limit]
        : sl \in SourceLists, sh \in QueryShapes }
    \cup { [NewInternalQuery("Insert") EXCEPT !.sources = <<DataSource("mock", "users")>>] }

\* The envelope lists handed to execute_distributed_query
EnvelopeLists ==
    { <<>> }
    \cup { <<ConnectorQuery("Mock", q)>> : q \in Queries }
    \cup { <<ConnectorQuery("Mock", q), ConnectorQuery("PostgreSQL", q)>>
             : q \in {NewInternalQuery("Select"),
                      [NewInternalQuery("Select") EXCEPT !.sources = <<DataSource("mock", "users")>>]} }

\* The planners in use: the default one and one built with with_costs
Planners == {DefaultQueryPlanner, PlannerWithCosts(20, 3, 7, 2)}

\* The plans handed to execute_plan: the empty plan and the planner's plans
Plans ==
    { NewExecutionPlan }
    \cup { CreateExecutionPlan(DefaultQueryPlanner, q).plan
             : q \in {x \in Queries : IsOk(CreateExecutionPlan(DefaultQueryPlanner, x))} }

\* The registries handed to set_connector_registry
ExecutorRegistries ==
    { EmptyMap,
      [n \in {"mock"} |-> MockConnector(101, TRUE, "custom")],
      [n \in {"mock_0", "table_connector"} |->
          IF n = "mock_0" THEN MockConnector(102, TRUE, "default")
          ELSE MockConnector(103, FALSE, "default")] }

\* Syntax trees, as sqlparser builds them

Identifier(value) == [e |-> "Identifier", value |-> value]

NumberLiteral(n) == [e |-> "Value", value |-> [v |-> "Number", integer |-> TRUE, n |-> n]]

BinaryOp(left, op, right) == [e |-> "BinaryOp", left |-> left, op |-> op, right |-> right]

\* source('<spec>') in FROM position: a table factor with arguments
SourceCall(spec) ==
    [tf |-> "Table", name |-> "source", alias |-> NoneVal,
     args |-> Some(<<[arg |-> "SingleQuotedString", spec |-> spec]>>)]

PlainTable(name) == [tf |-> "Table", name |-> name, alias |-> NoneVal, args |-> NoneVal]

\* TableWithJoins { relation, joins }
FromItem(relation, joins) == [relation |-> relation, joins |-> joins]

InnerJoin(relation, on) == [relation |-> relation, join_operator |-> "Inner", on |-> on]

Wildcard == [item |-> "Wildcard"]

SelectStatement(projection, from, selection, order_by, limit) ==
    [stmt |-> "Query", body |-> "Select", projection |-> projection, from |-> from,
     selection |-> selection, order_by |-> order_by, limit |-> limit]

\* A text every dialect parses into the same statements
AllDialects(statements) == [d \in 1..4 |-> [parsed |-> TRUE, statements |-> statements]]

\* A text no dialect parses
NoDialect == [d \in 1..4 |-> [parsed |-> FALSE, statements |-> <<>>]]

\* SELECT * FROM source('mock.users') WHERE age > 25
SqlScenarioA ==
    AllDialects(<<SelectStatement(<<Wildcard>>,
        <<FromItem(SourceCall(<<"mock", ".", "users">>), <<>>)>>,
        Some(BinaryOp(Identifier("age"), "Gt", NumberLiteral(25))), <<>>, NoneVal)>>)

\* SELECT * FROM source('mock.users') ORDER BY name DESC LIMIT 2
SqlScenarioB ==
    AllDialects(<<SelectStatement(<<Wildcard>>,
        <<FromItem(SourceCall(<<"mock", ".", "users">>), <<>>)>>,
        NoneVal, <<[expr |-> Identifier("name"), asc |-> Some(FALSE)]>>, Some(NumberLiteral(2)))>>)

\* SELECT * FROM source('mock.products') WHERE price > 10
SqlPriceAbove10 ==
    AllDialects(<<SelectStatement(<<Wildcard>>,
        <<FromItem(SourceCall(<<"mock", ".", "products">>), <<>>)>>,
        Some(BinaryOp(Identifier("price"), "Gt", NumberLiteral(10))), <<>>, NoneVal)>>)

\* SELECT * FROM source('unregistered.table')
SqlScenarioC ==
    AllDialects(<<SelectStatement(<<Wildcard>>,
        <<FromItem(SourceCall(<<"unregistered", ".", "table">>), <<>>)>>,
        NoneVal, <<>>, NoneVal)>>)

\* SELECT * FROM source('mock.users'), source('mock.products')
SqlTwoFromItems ==
    AllDialects(<<SelectStatement(<<Wildcard>>,
        <<FromItem(SourceCall(<<"mock", ".", "users">>), <<>>),
          FromItem(SourceCall(<<"mock", ".", "products">>), <<>>)>>,
        NoneVal, <<>>, NoneVal)>>)

\* SELECT * FROM source('mock.users') JOIN source('mock.products') ON id = product_id
SqlJoin ==
    AllDialects(<<SelectStatement(<<Wildcard>>,
        <<FromItem(SourceCall(<<"mock", ".", "users">>),
                   <<InnerJoin(SourceCall(<<"mock", ".", "products">>),
                               BinaryOp(Identifier("id"), "Eq", Identifier("product_id")))>>)>>,
        NoneVal, <<>>, NoneVal)>>)

\* SELECT * FROM users JOIN source('unregistered.table') ON id = user_id
SqlJoinUnregistered ==
    AllDialects(<<SelectStatement(<<Wildcard>>,
        <<FromItem(PlainTable("users"),
                   <<InnerJoin(SourceCall(<<"unregistered", ".", "table">>),
                               BinaryOp(Identifier("id"), "Eq", Identifier("user_id")))>>)>>,
        NoneVal, <<>>, NoneVal)>>)

\* SELECT * FROM users LIMIT 1
SqlPlainTable ==
    AllDialects(<<SelectStatement(<<Wildcard>>, <<FromItem(PlainTable("users"), <<>>)>>,
        NoneVal, <<>>, Some(NumberLiteral(1)))>>)

\* SELECT * FROM source('products')
SqlDefaultType ==
    AllDialects(<<SelectStatement(<<Wildcard>>,
        <<FromItem(SourceCall(<<"products">>), <<>>)>>, NoneVal, <<>>, NoneVal)>>)

\* SELECT * FROM source('file.data.csv')
SqlDottedIdentifier ==
    AllDialects(<<SelectStatement(<<Wildcard>>,
        <<FromItem(SourceCall(<<"file", ".", "data", ".", "csv">>), <<>>)>>,
        NoneVal, <<>>, NoneVal)>>)

\* SELECT * FROM `users`: rejected by the PostgreSQL dialect, parsed by the MySQL one
SqlBackticks ==
    [d \in 1..4 |->
        IF d = 1 THEN [parsed |-> FALSE, statements |-> <<>>]
        ELSE [parsed |-> TRUE,
              statements |-> <<SelectStatement(<<Wildcard>>, <<FromItem(PlainTable("users"), <<>>)>>,
                                               NoneVal, <<>>, NoneVal)>>]]

\* INSERT INTO users VALUES (1)
SqlInsert == AllDialects(<<[stmt |-> "Insert"]>>)

\* SELECT * FROM source('mock.users'); DELETE FROM users
SqlTwoStatements ==
    AllDialects(<<SelectStatement(<<Wildcard>>,
                      <<FromItem(SourceCall(<<"mock", ".", "users">>), <<>>)>>,
                      NoneVal, <<>>, NoneVal),
                  [stmt |-> "Delete"]>>)

\* The empty text: every dialect parses it into no statement
SqlEmpty == AllDialects(<<>>)

\* The texts handed to Engine::execute_query
SqlTexts ==
    { SqlScenarioA, SqlScenarioB, SqlScenarioC, SqlPriceAbove10, SqlTwoFromItems, SqlJoin, SqlJoinUnregistered,
      SqlPlainTable, SqlDefaultType, SqlDottedIdentifier, SqlBackticks, SqlInsert,
      SqlTwoStatements, SqlEmpty, NoDialect }

\* The names callers register connectors under in a ConnectorRegistry of their own
ConnectorNames == {"test_connector", "mock", "mock_0"}

\* What callers hand to a DataObjectTypeRegistry of their own: object types,
\* connector names and capability records
RegistryTypes == {"postgres", "mock"}

RegistryConnectorNames == {"pg_connector", "mock_0"}

RegistryCapabilities ==
    {ReducedCapabilities(MockConnector(0, FALSE, "default")),
     ReducedCapabilities(PostgresConnector(0))}

\* The envelopes handed to a connector's execute_query directly
ConnectorQueries == { ConnectorQuery("Mock", q) : q \in Queries }

\* The object names handed to get_schema
ObjectNames == {"users", "products", "orders"}

\* The caller tasks that share one engine (tokio::spawn of engine.execute_query)
Tasks == 1..MaxInFlight

\* The texts the concurrent callers hand to Engine::execute_query
ConcurrentTexts == {SqlScenarioA, SqlTwoFromItems, SqlInsert}

\* What is registered while the concurrent calls run: a connected MockConnector,
\* for the type the texts name
ConnectedConnectors(id) == {MockConnector(id, TRUE, "default")}

ConcurrentTypes == {"mock"}

\* parse_sql of each of those texts (the parser keeps no state: a text always parses
\* to the same value)
ParsedTexts == [sql \in ConcurrentTexts |-> ParseSql(sql)]

\* A caller task with no call under way
IdleSlot == [pc |-> "idle"]

\* The dispatcher's RwLock with no guard alive
Unlocked == [readers |-> {}, writer |-> NoneVal]

\* ------------------------------------------------------------ state machine

\* DefaultDispatcher::new(), DefaultQueryExecutor::new(): empty registries, no executor registry
Init ==
    /\ connector_registry = EmptyMap
    /\ type_to_connector = EmptyMap
    /\ connector_capabilities = EmptyMap
    /\ executor_registry = NoneVal
    /\ created = 0
    /\ last = [op |-> "new"]
    /\ in_flight = [t \in Tasks |-> IdleSlot]
    /\ dispatcher_lock = Unlocked
    /\ owned_connector = MockConnector(0, FALSE, "default")
    /\ lifecycle = <<>>
    /\ engine_pc = "new"
    /\ shutdown_signal = NoneVal
    /\ server_tasks = <<>>
    /\ servers = <<>>

\* What the caller of an operation observes: the operation, its argument, the value
\* it returned and the connector calls it made while running.
Returned(op, argument, r) ==
    [op |-> op] @@ r @@ argument

\* The calls that only read the registries leave every registry as it was, so each
\* (registries, call, outcome) combination is reached by making the call right after
\* construction or after a call that changed a registry; read-only calls are
\* explored from those states only.
RegistriesJustSet == last.op \in {"new", "register_connector", "set_connector_registry"}

\* The effect of Dispatcher::register_connector(object_type, connector) on the
\* dispatcher's registries, with the call and its result recorded in last.
RegisterConnectorEffect(object_type, connector) ==
    /\ LET r == RegisterConnectorCall(connector_registry, type_to_connector,
                                      connector_capabilities, object_type, connector)
       IN /\ connector_registry' = r.connectors
          /\ type_to_connector' = r.type_to_connector
          /\ connector_capabilities' = r.connector_capabilities
          /\ last' = [op |-> "register_connector",
                      object_type |-> object_type,
                      connector |-> connector,
                      was_registered |-> IsTypeRegistered(type_to_connector, object_type),
                      prior |-> GetConnector(connector_registry, type_to_connector, object_type),
                      res |-> r.res]
    /\ created' = created + 1
    /\ UNCHANGED <<executor_registry, in_flight, dispatcher_lock>>
    /\ UNCHANGED <<connector_vars, server_vars>>

\* Dispatcher::register_connector(object_type, connector)
RegisterConnector(object_type, connector) ==
    /\ created < MaxRegistrations
    /\ RegisterConnectorEffect(object_type, connector)

\* Dispatcher::route_query(query)
DoRouteQuery(query) ==
    /\ RegistriesJustSet
    /\ last' = [op |-> "route_query", query |-> query,
                res |-> RouteQuery(connector_registry, type_to_connector, query)]
    /\ UNCHANGED <<connector_registry, type_to_connector, connector_capabilities,
                   executor_registry, created, in_flight, dispatcher_lock>>
    /\ UNCHANGED <<connector_vars, server_vars>>

\* Dispatcher::execute_distributed_query(queries)
DoExecuteDistributedQuery(queries) ==
    /\ RegistriesJustSet
    /\ last' = Returned("execute_distributed_query", [queries |-> queries],
                         ExecuteDistributedQuery(connector_registry, type_to_connector, queries))
    /\ UNCHANGED <<connector_registry, type_to_connector, connector_capabilities,
                   executor_registry, created, in_flight, dispatcher_lock>>
    /\ UNCHANGED <<connector_vars, server_vars>>

\* Engine::execute_query(query_string)
DoEngineExecuteQuery(sql) ==
    /\ RegistriesJustSet
    /\ last' = Returned("engine_execute_query", [sql |-> sql],
                         EngineExecuteQuery(connector_registry, type_to_connector, sql))
    /\ UNCHANGED <<connector_registry, type_to_connector, connector_capabilities,
                   executor_registry, created, in_flight, dispatcher_lock>>
    /\ UNCHANGED <<connector_vars, server_vars>>

\* QueryPlanner::create_execution_plan(query)
DoCreateExecutionPlan(planner, query) ==
    /\ RegistriesJustSet
    /\ last' = [op |-> "create_execution_plan", planner |-> planner, query |-> query,
                res |-> CreateExecutionPlan(planner, query)]
    /\ UNCHANGED <<connector_registry, type_to_connector, connector_capabilities,
                   executor_registry, created, in_flight, dispatcher_lock>>
    /\ UNCHANGED <<connector_vars, server_vars>>

\* QueryExecutor::set_connector_registry(registry)
SetConnectorRegistry(registry) ==
    /\ executor_registry' = Some(registry)
    /\ last' = [op |-> "set_connector_registry"]
    /\ UNCHANGED <<connector_registry, type_to_connector, connector_capabilities, created,
                   in_flight, dispatcher_lock>>
    /\ UNCHANGED <<connector_vars, server_vars>>

\* QueryExecutor::execute_plan(plan)
DoExecutePlan(plan) ==
    /\ RegistriesJustSet
    /\ last' = Returned("execute_plan", [plan |-> plan],
                         ExecutePlan(executor_registry, plan))
    /\ UNCHANGED <<connector_registry, type_to_connector, connector_capabilities,
                   executor_registry, created, in_flight, dispatcher_lock>>
    /\ UNCHANGED <<connector_vars, server_vars>>

\* QueryParser::parse_sql(sql)
DoParseSql(sql) ==
    /\ RegistriesJustSet
    /\ last' = [op |-> "parse_sql", sql |-> sql, res |-> ParseSql(sql)]
    /\ UNCHANGED <<connector_registry, type_to_connector, connector_capabilities,
                   executor_registry, created, in_flight, dispatcher_lock>>
    /\ UNCHANGED <<connector_vars, server_vars>>

Next ==
    \/ \E t \in ObjectTypes, c \in NewConnectors(created + 1) : RegisterConnector(t, c)
    \/ \E q \in Queries : DoRouteQuery(q)
    \/ \E qs \in EnvelopeLists : DoExecuteDistributedQuery(qs)
    \/ \E sql \in SqlTexts : DoEngineExecuteQuery(sql)
    \/ \E p \in Planners, q \in Queries : DoCreateExecutionPlan(p, q)
    \/ \E r \in ExecutorRegistries : SetConnectorRegistry(r)
    \/ \E p \in Plans : DoExecutePlan(p)
    \/ \E sql \in SqlTexts : DoParseSql(sql)

Spec == Init /\ [][Next]_vars

\* ------------------------------------------- sequences of registrations
\* A dispatcher that starts empty and only receives register_connector calls, some
\* of which fail because their type is already registered.

\* Dispatcher::register_connector(object_type, connector), one call of a sequence
RegisterNext(object_type, connector) ==
    /\ created < MaxRegistrationSequence
    /\ RegisterConnectorEffect(object_type, connector)

RegistrationNext ==
    \E t \in ObjectTypes, c \in NewConnectors(created + 1) : RegisterNext(t, c)

RegistrationSpec == Init /\ [][RegistrationNext]_vars

\* ------------------------------------------- concurrent calls on one engine
\* Engine::execute_query taken apart at its await points; every caller task runs
\* the same code on the shared Arc<Engine>.

\* A caller starts engine.execute_query(sql)
Submit(t, sql) ==
    /\ in_flight[t].pc = "idle"
    /\ in_flight' = [in_flight EXCEPT ![t] = [pc |-> "parse", sql |-> sql]]
    /\ UNCHANGED <<connector_registry, type_to_connector, connector_capabilities,
                   executor_registry, created, last, dispatcher_lock>>
    /\ UNCHANGED <<connector_vars, server_vars>>

\* The call after self.query_parser.parse_sql(query_string).await?
Parsed(slot, internal_query) ==
    IF IsErr(internal_query)
    THEN [pc |-> "done", sql |-> slot.sql, res |-> internal_query, alongside |-> {}]
    ELSE [pc |-> "lock", sql |-> slot.sql, query |-> internal_query.query]

\* execute_query: parse the text
ParseStep(t) ==
    /\ in_flight[t].pc = "parse"
    /\ in_flight' = [in_flight EXCEPT ![t] = Parsed(in_flight[t], ParsedTexts[in_flight[t].sql])]
    /\ UNCHANGED <<connector_registry, type_to_connector, connector_capabilities,
                   executor_registry, created, last, dispatcher_lock>>
    /\ UNCHANGED <<connector_vars, server_vars>>

\* execute_query: self.dispatcher.read().await returns once no writer holds the lock
AcquireRead(t) ==
    /\ in_flight[t].pc = "lock"
    /\ ~IsSome(dispatcher_lock.writer)
    /\ dispatcher_lock' = [dispatcher_lock EXCEPT !.readers = @ \cup {t}]
    /\ in_flight' = [in_flight EXCEPT ![t].pc = "route"]
    /\ UNCHANGED <<connector_registry, type_to_connector, connector_capabilities,
                   executor_registry, created, last>>
    /\ UNCHANGED <<connector_vars, server_vars>>

\* The call after dispatcher.route_query(&internal_query).await?
Routed(slot, connector_queries) ==
    IF IsErr(connector_queries)
    THEN [pc |-> "done", sql |-> slot.sql, res |-> connector_queries, alongside |-> {}]
    ELSE [pc |-> "execute", sql |-> slot.sql, envelopes |-> connector_queries.queries]

\* route_query on a buggy build whose engine keeps the parsed query in one field
\* that every call under way writes and reads
RouteStepSharedQuery(t) ==
    /\ in_flight[t].pc = "route"
    /\ \E u \in Tasks :
        /\ in_flight[u].pc \in {"lock", "route"}
        /\ in_flight' = [in_flight EXCEPT ![t] =
                Routed(in_flight[t],
                       RouteQuery(connector_registry, type_to_connector, in_flight[u].query))]
    /\ dispatcher_lock' = IF in_flight'[t].pc = "done"
                          THEN [dispatcher_lock EXCEPT !.readers = @ \ {t}]
                          ELSE dispatcher_lock
    /\ UNCHANGED <<connector_registry, type_to_connector, connector_capabilities,
                   executor_registry, created, last>>
    /\ UNCHANGED <<connector_vars, server_vars>>

\* execute_query: route the parsed query under the read guard; the early return on
\* an error drops the guard
RouteStep(t) ==
    /\ in_flight[t].pc = "route"
    /\ in_flight' = [in_flight EXCEPT ![t] =
            Routed(in_flight[t],
                   RouteQuery(connector_registry, type_to_connector, in_flight[t].query))]
    /\ dispatcher_lock' = IF in_flight'[t].pc = "done"
                          THEN [dispatcher_lock EXCEPT !.readers = @ \ {t}]
                          ELSE dispatcher_lock
    /\ UNCHANGED <<connector_registry, type_to_connector, connector_capabilities,
                   executor_registry, created, last>>
    /\ UNCHANGED <<connector_vars, server_vars>>

\* The call after dispatcher.execute_distributed_query(connector_queries).await;
\* alongside: the other calls holding the read guard when the connector returned
Executed(slot, r, alongside) ==
    [pc |-> "done", sql |-> slot.sql, res |-> r.res, alongside |-> alongside]

\* execute_query: execute the envelopes under the same read guard, then drop it
ExecuteStep(t) ==
    /\ in_flight[t].pc = "execute"
    /\ in_flight' = [in_flight EXCEPT ![t] =
            Executed(in_flight[t],
                     ExecuteDistributedQuery(connector_registry, type_to_connector,
                                             in_flight[t].envelopes),
                     dispatcher_lock.readers \ {t})]
    /\ dispatcher_lock' = [dispatcher_lock EXCEPT !.readers = @ \ {t}]
    /\ UNCHANGED <<connector_registry, type_to_connector, connector_capabilities,
                   executor_registry, created, last>>
    /\ UNCHANGED <<connector_vars, server_vars>>

\* The caller takes the result of its call (handle.await) and may call again
Collect(t) ==
    /\ in_flight[t].pc = "done"
    /\ in_flight' = [in_flight EXCEPT ![t] = IdleSlot]
    /\ UNCHANGED <<connector_registry, type_to_connector, connector_capabilities,
                   executor_registry, created, last, dispatcher_lock>>
    /\ UNCHANGED <<connector_vars, server_vars>>

\* register_connector on a buggy build whose write guard waits for other writers
\* only, not for the read guards of queries under way
AcquireWriteOverReaders(object_type, connector) ==
    /\ created < MaxRegistrations
    /\ ~IsSome(dispatcher_lock.writer)
    /\ dispatcher_lock' = [dispatcher_lock EXCEPT
            !.writer = Some([object_type |-> object_type, connector |-> connector])]
    /\ UNCHANGED <<connector_registry, type_to_connector, connector_capabilities,
                   executor_registry, created, last, in_flight>>
    /\ UNCHANGED <<connector_vars, server_vars>>

\* Engine::register_connector: self.dispatcher.write().await returns once no guard
\* is alive
AcquireWrite(object_type, connector) ==
    /\ created < MaxRegistrations
    /\ dispatcher_lock = Unlocked
    /\ dispatcher_lock' = [dispatcher_lock EXCEPT
            !.writer = Some([object_type |-> object_type, connector |-> connector])]
    /\ UNCHANGED <<connector_registry, type_to_connector, connector_capabilities,
                   executor_registry, created, last, in_flight>>
    /\ UNCHANGED <<connector_vars, server_vars>>

\* Engine::register_connector: register under the write guard, then drop it
RegisterUnderWrite ==
    /\ IsSome(dispatcher_lock.writer)
    /\ LET r == RegisterConnectorCall(connector_registry, type_to_connector,
                                      connector_capabilities,
                                      dispatcher_lock.writer.val.object_type,
                                      dispatcher_lock.writer.val.connector)
       IN /\ connector_registry' = r.connectors
          /\ type_to_connector' = r.type_to_connector
          /\ connector_capabilities' = r.connector_capabilities
    /\ created' = created + 1
    /\ dispatcher_lock' = Unlocked
    /\ UNCHANGED <<executor_registry, last, in_flight>>
    /\ UNCHANGED <<connector_vars, server_vars>>

ConcurrentNext ==
    \/ \E t \in Tasks, sql \in ConcurrentTexts : Submit(t, sql)
    \/ \E t \in Tasks : ParseStep(t)
    \/ \E t \in Tasks : AcquireRead(t)
    \/ \E t \in Tasks : RouteStep(t)
    \/ \E t \in Tasks : ExecuteStep(t)
    \/ \E t \in Tasks : Collect(t)
    \/ \E o \in ConcurrentTypes, c \in ConnectedConnectors(created + 1) : AcquireWrite(o, c)
    \/ RegisterUnderWrite

\* The next step of a call under way: at each point of the call one of them
TaskStep(t) == ParseStep(t) \/ AcquireRead(t) \/ RouteStep(t) \/ ExecuteStep(t)

\* The tokio runtime polls every spawned task that can make progress, and a write
\* guard is dropped at the end of register_connector: the next step of a call under
\* way is taken if it stays possible.
ConcurrentFairness ==
    /\ \A t \in Tasks : WF_vars(TaskStep(t))
    /\ WF_vars(RegisterUnderWrite)

ConcurrentSpec == Init /\ [][ConcurrentNext]_vars /\ ConcurrentFairness

\* ------------------------------------------------ a connector driven directly
\* The calls of the Connector trait made on one MockConnector by its owner.

\* connector.connect(config)
ConnectorConnect ==
    /\ Len(lifecycle) < MaxLifecycleCalls
    /\ owned_connector' = MockConnect(owned_connector)
    /\ lifecycle' = Append(lifecycle, "connect")
    /\ last' = [op |-> "connect", res |-> OkUnit]
    /\ UNCHANGED <<core_vars, server_vars>>

\* connector.disconnect()
ConnectorDisconnect ==
    /\ Len(lifecycle) < MaxLifecycleCalls
    /\ owned_connector' = MockDisconnect(owned_connector)
    /\ lifecycle' = Append(lifecycle, "disconnect")
    /\ last' = [op |-> "disconnect", res |-> OkUnit]
    /\ UNCHANGED <<core_vars, server_vars>>

\* connector.add_test_data_with_columns(..): the tables of CustomTestData replace
\* the default ones
ConnectorAddTestData ==
    /\ owned_connector.test_data = "default"
    /\ owned_connector' = [owned_connector EXCEPT !.test_data = "custom"]
    /\ last' = [op |-> "add_test_data_with_columns"]
    /\ UNCHANGED <<core_vars, server_vars, lifecycle>>

\* connector.execute_query(query)
ConnectorExecute(cq) ==
    /\ last' = [op |-> "connector_execute_query", query |-> cq,
                res |-> MockExecuteQuery(owned_connector, cq)]
    /\ UNCHANGED <<core_vars, server_vars, connector_vars>>

\* connector.get_schema(object_name)
ConnectorGetSchema(object_name) ==
    /\ last' = [op |-> "get_schema", object_name |-> object_name,
                res |-> MockGetSchema(owned_connector, object_name)]
    /\ UNCHANGED <<core_vars, server_vars, connector_vars>>

ConnectorNext ==
    \/ ConnectorConnect
    \/ ConnectorDisconnect
    \/ ConnectorAddTestData
    \/ \E cq \in ConnectorQueries : ConnectorExecute(cq)
    \/ \E n \in ObjectNames : ConnectorGetSchema(n)

ConnectorSpec == Init /\ [][ConnectorNext]_vars

\* ------------------------------------------- a ConnectorRegistry used directly
\* connector_registry stands for a ConnectorRegistry its owner calls directly.

\* registry.register(name, connector)
RegistryRegisterCall(name, new_connector) ==
    /\ created < MaxRegistrations
    /\ LET r == RegistryRegister(connector_registry, name, new_connector)
       IN /\ connector_registry' = r.connectors
          /\ last' = [op |-> "registry_register", name |-> name,
                      connector |-> new_connector, before |-> connector_registry,
                      res |-> r.res]
    /\ created' = created + 1
    /\ UNCHANGED <<type_to_connector, connector_capabilities, executor_registry,
                   in_flight, dispatcher_lock, connector_vars, server_vars>>

\* registry.unregister(name)
RegistryUnregisterCall(name) ==
    /\ LET r == RegistryUnregister(connector_registry, name)
       IN /\ connector_registry' = r.connectors
          /\ last' = [op |-> "registry_unregister", name |-> name,
                      before |-> connector_registry, res |-> r.res]
    /\ UNCHANGED <<type_to_connector, connector_capabilities, executor_registry, created,
                   in_flight, dispatcher_lock, connector_vars, server_vars>>

RegistryNext ==
    \/ \E n \in ConnectorNames, c \in NewConnectors(created + 1) : RegistryRegisterCall(n, c)
    \/ \E n \in ConnectorNames : RegistryUnregisterCall(n)

RegistrySpec == Init /\ [][RegistryNext]_vars

\* --------------------------------------- a DataObjectTypeRegistry used directly
\* type_to_connector and connector_capabilities stand for a DataObjectTypeRegistry
\* its owner calls directly.

\* registry.register_type(object_type, connector_name, capabilities)
TypeRegisterCall(object_type, connector_name, capabilities) ==
    /\ LET r == RegisterType(type_to_connector, connector_capabilities,
                             object_type, connector_name, capabilities)
       IN /\ type_to_connector' = r.type_to_connector
          /\ connector_capabilities' = r.connector_capabilities
          /\ last' = [op |-> "register_type", object_type |-> object_type,
                      connector_name |-> connector_name, res |-> r.res]
    /\ UNCHANGED <<connector_registry, executor_registry, created,
                   in_flight, dispatcher_lock, connector_vars, server_vars>>

\* registry.unregister_type(object_type)
TypeUnregisterCall(object_type) ==
    /\ LET r == UnregisterType(type_to_connector, connector_capabilities, object_type)
       IN /\ type_to_connector' = r.type_to_connector
          /\ connector_capabilities' = r.connector_capabilities
          /\ last' = [op |-> "unregister_type", object_type |-> object_type, res |-> r.res]
    /\ UNCHANGED <<connector_registry, executor_registry, created,
                   in_flight, dispatcher_lock, connector_vars, server_vars>>

TypeRegistryNext ==
    \/ \E t \in RegistryTypes, n \in RegistryConnectorNames, c \in RegistryCapabilities :
            TypeRegisterCall(t, n, c)
    \/ \E t \in RegistryTypes : TypeUnregisterCall(t)

TypeRegistrySpec == Init /\ [][TypeRegistryNext]_vars

\* ------------------------------------------------- protocol servers, shutdown
\* Engine::initialize starts one accept loop per configured protocol adapter, each
\* a spawned task with its own receiver of the shutdown broadcast channel;
\* Engine::shutdown sends on the channel and awaits the tasks' JoinHandles in order.
\* engine_pc: "new", "starting" (inside start_protocol_servers), "initialized",
\* "failed" (initialize returned Err), "draining" (inside shutdown, after the send),
\* "returned" (shutdown returned).

\* tokio::sync::broadcast::channel(1): the sender kept in Engine.shutdown_signal,
\* with the server tasks whose receivers are subscribed to it
BroadcastSender(subscribers) == [subscribers |-> subscribers]

\* A spawned accept loop: listening or stopped (the task has completed), whether a
\* value waits in its shutdown_rx, and the client connections it accepted
ServerTask(state, signalled, accepted) ==
    [state |-> state, signalled |-> signalled, accepted |-> accepted]

\* shutdown_tx.send(()): every subscribed receiver gets the value
BroadcastSend(tasks, sender) ==
    [s \in DOMAIN tasks |->
        IF s \in sender.subscribers
        THEN ServerTask(tasks[s].state, TRUE, tasks[s].accepted)
        ELSE tasks[s]]

\* Engine::initialize_for_testing, and Engine::initialize with no protocol adapter
\* configured: start_protocol_servers is not called
InitializeWithoutServers ==
    /\ engine_pc = "new"
    /\ engine_pc' = "initialized"
    /\ last' = [op |-> "initialize", res |-> OkUnit]
    /\ UNCHANGED <<shutdown_signal, server_tasks, servers>>
    /\ UNCHANGED <<core_vars, connector_vars>>

\* start_protocol_servers: create the channel and keep a clone of the sender
StartProtocolServers ==
    /\ engine_pc = "new"
    /\ engine_pc' = "starting"
    /\ shutdown_signal' = Some(BroadcastSender({}))
    /\ UNCHANGED <<last, server_tasks, servers>>
    /\ UNCHANGED <<core_vars, connector_vars>>

\* start_protocol_servers, one adapter of the loop: TcpListener::bind succeeded, the
\* receiver is subscribed, the accept loop is spawned and its handle pushed
BindAndSpawn ==
    /\ engine_pc = "starting"
    /\ Len(servers) < MaxServers
    /\ servers' = Append(servers, ServerTask("listening", FALSE, 0))
    /\ server_tasks' = Append(server_tasks, Len(servers) + 1)
    /\ shutdown_signal' = Some(BroadcastSender(shutdown_signal.val.subscribers
                                                  \cup {Len(servers) + 1}))
    /\ UNCHANGED <<last, engine_pc>>
    /\ UNCHANGED <<core_vars, connector_vars>>

\* start_protocol_servers, one adapter of the loop: TcpListener::bind failed, the ?
\* returns the error and initialize fails; the tasks spawned so far keep running
BindFailed ==
    /\ engine_pc = "starting"
    /\ Len(servers) < MaxServers
    /\ engine_pc' = "failed"
    /\ last' = [op |-> "initialize",
                res |-> Err("Internal", "Internal", Msg("Failed to bind to "))]
    /\ UNCHANGED <<shutdown_signal, server_tasks, servers>>
    /\ UNCHANGED <<core_vars, connector_vars>>

\* start_protocol_servers returns Ok(()) after the last configured adapter (it is
\* only called with at least one)
ServersStarted ==
    /\ engine_pc = "starting"
    /\ Len(servers) >= 1
    /\ engine_pc' = "initialized"
    /\ last' = [op |-> "initialize", res |-> OkUnit]
    /\ UNCHANGED <<shutdown_signal, server_tasks, servers>>
    /\ UNCHANGED <<core_vars, connector_vars>>

\* The accept loop, select! branch listener.accept(): a client connected and its
\* handler was spawned
AcceptConnection(s) ==
    /\ s \in DOMAIN servers
    /\ servers[s].state = "listening"
    /\ servers[s].accepted < MaxConnections
    /\ servers' = [servers EXCEPT ![s].accepted = @ + 1]
    /\ UNCHANGED <<last, engine_pc, shutdown_signal, server_tasks>>
    /\ UNCHANGED <<core_vars, connector_vars>>

\* The accept loop, select! branch shutdown_rx.recv(): break, the task completes
\* and drops its listener and its receiver
ShutdownReceived(s) ==
    /\ s \in DOMAIN servers
    /\ servers[s].state = "listening"
    /\ servers[s].signalled
    /\ servers' = [servers EXCEPT ![s] = ServerTask("stopped", FALSE, servers[s].accepted)]
    /\ shutdown_signal' = Some(BroadcastSender(shutdown_signal.val.subscribers \ {s}))
    /\ UNCHANGED <<last, engine_pc, server_tasks>>
    /\ UNCHANGED <<core_vars, connector_vars>>

\* Engine::shutdown, first half: send on the channel if there is one (the result of
\* send is ignored)
ShutdownSend ==
    /\ engine_pc = "initialized"
    /\ engine_pc' = "draining"
    /\ servers' = IF IsSome(shutdown_signal)
                  THEN BroadcastSend(servers, shutdown_signal.val)
                  ELSE servers
    /\ UNCHANGED <<last, shutdown_signal, server_tasks>>
    /\ UNCHANGED <<core_vars, connector_vars>>

\* shutdown on a buggy build that drops the handles instead of awaiting them
ShutdownJoinDetached ==
    /\ engine_pc = "draining"
    /\ server_tasks # <<>>
    /\ server_tasks' = Tail(server_tasks)
    /\ UNCHANGED <<last, engine_pc, shutdown_signal, servers>>
    /\ UNCHANGED <<core_vars, connector_vars>>

\* Engine::shutdown, `for task in self.server_tasks.drain(..) { let _ = task.await; }`:
\* the await of the next handle returns once that task has completed
ShutdownJoin ==
    /\ engine_pc = "draining"
    /\ server_tasks # <<>>
    /\ servers[Head(server_tasks)].state = "stopped"
    /\ server_tasks' = Tail(server_tasks)
    /\ UNCHANGED <<last, engine_pc, shutdown_signal, servers>>
    /\ UNCHANGED <<core_vars, connector_vars>>

\* Engine::shutdown returns Ok(()) after the last handle
ShutdownReturn ==
    /\ engine_pc = "draining"
    /\ server_tasks = <<>>
    /\ engine_pc' = "returned"
    /\ last' = [op |-> "shutdown", res |-> OkUnit]
    /\ UNCHANGED <<shutdown_signal, server_tasks, servers>>
    /\ UNCHANGED <<core_vars, connector_vars>>

ServerNext ==
    \/ InitializeWithoutServers
    \/ StartProtocolServers
    \/ BindAndSpawn
    \/ BindFailed
    \/ ServersStarted
    \/ \E s \in 1..MaxServers : AcceptConnection(s)
    \/ \E s \in 1..MaxServers : ShutdownReceived(s)
    \/ ShutdownSend
    \/ ShutdownJoin
    \/ ShutdownReturn

\* The tokio runtime polls a spawned accept loop whose receiver holds a value, and
\* select! picks among its ready branches at random, so the recv branch is taken;
\* the task running shutdown() is polled when the handle it awaits has completed.
\* Clients connecting and the owner calling shutdown() are not forced.
ServerFairness ==
    /\ \A s \in 1..MaxServers : WF_vars(ShutdownReceived(s))
    /\ WF_vars(ShutdownJoin)
    /\ WF_vars(ShutdownReturn)

ServerSpec == Init /\ [][ServerNext]_vars /\ ServerFairness

\* ------------------------------------------------------------------ claims
\* Every property below is stated on `last`, the record of the most recent call
\* (its arguments, what it returned, the connector calls it made), and on the
\* registries, which the calls that only read them leave as they were.

\* C1: when register_connector is called for an object type that is already
\* registered, the call fails with RegistrationFailed, and afterwards the connector
\* of the first registration is still the one route_query tags its envelope with and
\* the one execute_distributed_query calls for that object type.
C1_DuplicateRegistrationKeepsFirst ==
    (last.op = "register_connector" /\ last.was_registered) =>
        /\ IsErr(last.res)
        /\ last.res.family = "Dispatcher"
        /\ last.res.variant = "RegistrationFailed"
        /\ IsSome(last.prior)
        /\ last.prior.val.id # last.connector.id
        /\ GetConnector(connector_registry, type_to_connector, last.object_type) = last.prior
        /\ \A q \in Queries :
              (Len(q.sources) = 1 /\ q.sources[1].object_type = last.object_type) =>
                 LET routed == RouteQuery(connector_registry, type_to_connector, q)
                     executed == ExecuteDistributedQuery(connector_registry, type_to_connector,
                                                         routed.queries)
                 IN /\ IsOk(routed)
                    /\ Len(routed.queries) = 1
                    /\ routed.queries[1].connector_type = GetConnectorType(last.prior.val)
                    /\ Len(executed.calls) = 1
                    /\ executed.calls[1].id = last.prior.val.id
                    /\ executed.res = ConnectorExecuteQuery(last.prior.val, routed.queries[1])

\* C1 witness: a second registration for a type whose first connector is a connected
\* MockConnector, made with a connector of the other implementation
C1_Witness ==
    /\ last.op = "register_connector"
    /\ last.was_registered
    /\ last.prior.val.impl = "MockConnector"
    /\ last.prior.val.connected
    /\ last.connector.impl = "PostgresConnector"

\* Whether the connector registered for object type `mock` is a connected
\* MockConnector that exposes a users table
MockUsersRegistered ==
    LET connector == GetConnector(connector_registry, type_to_connector, "mock")
    IN /\ IsSome(connector)
       /\ connector.val.impl = "MockConnector"
       /\ connector.val.connected
       /\ "users" \in DOMAIN TestData(connector.val.test_data)

\* The name column of the rows of a result, in row order
NamesOf(result) ==
    [k \in 1..Len(result.rows) |-> result.rows[k][ColumnIndex(result.columns, "name")].s]

\* C2: with a connected connector exposing users registered for type mock,
\* SELECT * FROM source('mock.users') ORDER BY name DESC LIMIT 2 through
\* Engine::execute_query returns exactly two rows, the two with the largest names,
\* in descending name order.
C2_ScenarioBTopTwoDescending ==
    (last.op = "engine_execute_query" /\ last.sql = SqlScenarioB /\ MockUsersRegistered) =>
        /\ IsOk(last.res)
        /\ Len(last.res.rows) = 2
        /\ NamesOf(last.res) = <<Txt_Charlie, Txt_Bob>>

\* The texts that read from more than one source
MultiSourceTexts == {SqlTwoFromItems, SqlJoin, SqlJoinUnregistered}

\* C3: a query that reads from more than one source, written as several FROM items
\* or as a JOIN, is rejected with a typed error by Engine::execute_query and reaches
\* no connector.
C3_MultiSourceRejected ==
    (last.op = "engine_execute_query" /\ last.sql \in MultiSourceTexts) =>
        /\ IsErr(last.res)
        /\ last.calls = <<>>

\* C4: execute_distributed_query returns a query result or a typed error for every
\* list of envelopes, a single envelope whose query has no sources included; it
\* never unwinds without returning.
C4_AlwaysReturns ==
    (last.op = "execute_distributed_query") => last.res.kind \in {"ok", "err"}

\* Whether every source of the query has a registered object type
AllSourcesRegistered(query) ==
    \A k \in 1..Len(query.sources) :
        IsTypeRegistered(type_to_connector, query.sources[k].object_type)

\* C5: for a query with two or more sources whose object types are all registered,
\* route_query fails with CrossConnectorJoinUnsupported and returns no envelope.
C5_RegisteredSourcesStillUnsupported ==
    (last.op = "route_query" /\ Len(last.query.sources) >= 2
        /\ AllSourcesRegistered(last.query)) =>
        /\ IsErr(last.res)
        /\ last.res.family = "Dispatcher"
        /\ last.res.variant = "CrossConnectorJoinUnsupported"
        /\ "queries" \notin DOMAIN last.res

\* C5 witness: a routed query over two sources of two different registered types
C5_Witness ==
    /\ last.op = "route_query"
    /\ Len(last.query.sources) = 2
    /\ AllSourcesRegistered(last.query)
    /\ last.query.sources[1].object_type # last.query.sources[2].object_type

\* The object types of the query's sources that are not registered
UnmappedTypes(query) ==
    {query.sources[k].object_type : k \in 1..Len(query.sources)} \ DOMAIN type_to_connector

\* C6: if a source's object type is unmapped when route_query is called, the call
\* fails with UnregisteredObjectType, a message that names an unmapped type of the
\* query and lists exactly the object types registered at that moment.
C6_UnregisteredTypeListsRegistered ==
    (last.op = "route_query" /\ UnmappedTypes(last.query) # {}) =>
        /\ IsErr(last.res)
        /\ last.res.family = "Dispatcher"
        /\ last.res.variant = "UnregisteredObjectType"
        /\ \E t \in UnmappedTypes(last.query) :
              last.res.msg.text = "Data object type '" \o t
                                  \o "' is not registered. Available types: "
        /\ last.res.msg.list = DOMAIN type_to_connector

\* C6 witness: a routed query whose first source is registered and whose second is
\* not, while some type is registered
C6_Witness ==
    /\ last.op = "route_query"
    /\ Len(last.query.sources) = 2
    /\ IsTypeRegistered(type_to_connector, last.query.sources[1].object_type)
    /\ ~IsTypeRegistered(type_to_connector, last.query.sources[2].object_type)
    /\ IsErr(last.res)
    /\ last.res.msg.list # {}

\* C7: for a query with exactly one source whose object type is registered,
\* route_query returns exactly one envelope, tagged with the type tag of the
\* connector registered for that type and carrying the input query unchanged.
C7_SingleSourceEnvelope ==
    (last.op = "route_query" /\ Len(last.query.sources) = 1
        /\ AllSourcesRegistered(last.query)) =>
        /\ IsOk(last.res)
        /\ Len(last.res.queries) = 1
        /\ last.res.queries[1].connector_type =
              GetConnectorType(connector_registry[
                  type_to_connector[last.query.sources[1].object_type]])
        /\ last.res.queries[1].query = last.query

\* C7 witness: a routed single-source query with an ordering and a limit whose type
\* is served by a PostgresConnector
C7_Witness ==
    /\ last.op = "route_query"
    /\ Len(last.query.sources) = 1
    /\ AllSourcesRegistered(last.query)
    /\ IsSome(last.query.ordering)
    /\ IsSome(last.query.limit)
    /\ IsOk(last.res)
    /\ last.res.queries[1].connector_type = "PostgreSQL"

\* Whether the last call was execute_distributed_query with exactly one envelope
\* whose first source has a registered object type
SingleEnvelopeResolved ==
    /\ last.op = "execute_distributed_query"
    /\ Len(last.queries) = 1
    /\ last.queries[1].query.sources # <<>>
    /\ IsTypeRegistered(type_to_connector, last.queries[1].query.sources[1].object_type)

\* The connector execute_distributed_query resolves for the single envelope
ResolvedConnector ==
    connector_registry[type_to_connector[last.queries[1].query.sources[1].object_type]]

\* C8: given exactly one envelope, execute_distributed_query returns what the
\* resolved connector's execute_query returned, unchanged: the same columns and the
\* same rows in the same order, with no Sort, Limit or Projection applied even when
\* the query carries an ordering or a limit.  For a connected MockConnector these are
\* all columns of the table and all its rows that pass the predicates, in table order.
C8_ConnectorResultUnmodified ==
    SingleEnvelopeResolved =>
        /\ Len(last.calls) = 1
        /\ last.calls[1].id = ResolvedConnector.id
        /\ last.res = last.calls[1].returned
        /\ (IsOk(last.res) /\ ResolvedConnector.impl = "MockConnector") =>
              LET table == TestData(ResolvedConnector.test_data)[
                               last.queries[1].query.sources[1].identifier]
              IN /\ last.res.columns = table.columns
                 /\ last.res.rows = FilterRows(table.rows, table.columns,
                                               last.queries[1].query.predicates)

\* C8 witness: one envelope with ORDER BY name DESC LIMIT 2 on a three-row table,
\* answered with all three rows
C8_Witness ==
    /\ SingleEnvelopeResolved
    /\ last.queries[1].query.ordering = Some(NameDescending)
    /\ last.queries[1].query.limit = Some(2)
    /\ IsOk(last.res)
    /\ Len(last.res.rows) = 3

\* C9: when the connector's execute_query fails during execute_plan or
\* execute_distributed_query, the call returns that same error unchanged, returns no
\* rows, and has called the connector exactly once.
C9_ConnectorFailurePropagates ==
    (last.op \in {"execute_plan", "execute_distributed_query"}
        /\ \E k \in 1..Len(last.calls) : last.calls[k].failed) =>
        /\ Len(last.calls) = 1
        /\ IsErr(last.res)
        /\ last.res = last.calls[1].returned
        /\ last.res.family = "Connector"
        /\ "rows" \notin DOMAIN last.res

\* C9 witness: a plan with a Limit over a Sort over the scan, executed against a
\* connector whose execute_query failed
C9_Witness ==
    /\ last.op = "execute_plan"
    /\ Len(last.plan.nodes) = 3
    /\ Len(last.calls) = 1
    /\ last.calls[1].failed

\* C10: for every query with both an ordering and a limit, the plan
\* create_execution_plan returns has as root a Limit whose input is a Sort whose input
\* is the TableScan of the query's source.
C10_SortBelowLimit ==
    (last.op = "create_execution_plan" /\ IsSome(last.query.ordering)
        /\ IsSome(last.query.limit) /\ IsOk(last.res)) =>
        LET root == last.res.plan.nodes[Len(last.res.plan.nodes)]
        IN /\ root.node = "Limit"
           /\ root.count = last.query.limit.val
           /\ root.input.node = "Sort"
           /\ root.input.order_by = last.query.ordering.val
           /\ root.input.input.node = "TableScan"
           /\ root.input.input.source = last.query.sources[1]

\* C10 witness: a plan made for a query with predicates, an ordering and a limit
C10_Witness ==
    /\ last.op = "create_execution_plan"
    /\ IsSome(last.query.ordering)
    /\ IsSome(last.query.limit)
    /\ last.query.predicates # <<>>
    /\ IsOk(last.res)
    /\ Len(last.res.plan.nodes) = 3

\* C11: the estimated cost of the plan create_execution_plan returns is
\* base_scan_cost + predicate count * predicate multiplier, plus sort_cost only if an
\* ordering is present, plus limit_cost only if a limit is present, for the default
\* and for custom cost parameters.
C11_PlanCostFormula ==
    (last.op = "create_execution_plan" /\ IsOk(last.res)) =>
        last.res.plan.estimated_cost =
            last.planner.base_scan_cost
            + Len(last.query.predicates) * last.planner.predicate_cost_multiplier
            + (IF IsSome(last.query.ordering) THEN last.planner.sort_cost ELSE 0)
            + (IF IsSome(last.query.limit) THEN last.planner.limit_cost ELSE 0)

\* C16: create_execution_plan fails with the 'no sources' planning fault for a query
\* without sources and with the different 'multi-source unsupported' planning fault
\* for a query with more than one; it returns a plan only for exactly one source.
C16_ExactlyOneSourcePlanned ==
    (last.op = "create_execution_plan") =>
        /\ (last.query.sources = <<>>) =>
              last.res = Err("Internal", "Internal", Msg("No data sources found in query"))
        /\ (Len(last.query.sources) > 1) =>
              last.res = Err("Internal", "Internal",
                             Msg("Multi-source queries not supported in MVP"))
        /\ IsOk(last.res) <=> (Len(last.query.sources) = 1)
        /\ IsOk(last.res) => last.res.plan.nodes[1].source = last.query.sources[1]

\* C16 witness: planning a query over two sources that has an ordering and a limit
C16_Witness ==
    /\ last.op = "create_execution_plan"
    /\ Len(last.query.sources) = 2
    /\ IsSome(last.query.ordering)
    /\ IsSome(last.query.limit)
    /\ IsErr(last.res)

\* C17: execute_distributed_query calls a connector only when it is given exactly one
\* envelope: the empty list yields the empty result, not an error, and a list of more
\* than one envelope fails with CrossConnectorJoinUnsupported.
C17_OnlyOneEnvelopeExecutes ==
    (last.op = "execute_distributed_query") =>
        /\ (last.calls # <<>>) => (Len(last.queries) = 1)
        /\ (last.queries = <<>>) =>
              (last.res = OkResult(<<>>, <<>>) /\ last.calls = <<>>)
        /\ (Len(last.queries) > 1) =>
              /\ IsErr(last.res)
              /\ last.res.family = "Dispatcher"
              /\ last.res.variant = "CrossConnectorJoinUnsupported"
              /\ last.calls = <<>>

\* C17 witness: two envelopes for a source whose type is served by a connected
\* MockConnector, refused
C17_Witness ==
    /\ last.op = "execute_distributed_query"
    /\ Len(last.queries) = 2
    /\ last.queries[1].query.sources # <<>>
    /\ MockUsersRegistered
    /\ last.queries[1].query.sources[1].object_type = "mock"
    /\ IsErr(last.res)

\* C18: route_query on a query without sources fails with RoutingFailed, whatever
\* object types are registered.
C18_NoSourcesRoutingFailed ==
    (last.op = "route_query" /\ last.query.sources = <<>>) =>
        /\ last.res = Err("Dispatcher", "RoutingFailed", Msg("No data sources found in query"))
        /\ "queries" \notin DOMAIN last.res

\* C18 witness: a query without sources routed while two object types are registered
C18_Witness ==
    /\ last.op = "route_query"
    /\ last.query.sources = <<>>
    /\ Cardinality(DOMAIN type_to_connector) = 2
    /\ IsErr(last.res)

\* The smaller of two numbers
Min(a, b) == IF a <= b THEN a ELSE b

\* Whether the last call was execute_plan on a plan whose root is a node of this kind
RootIs(kind) ==
    /\ last.op = "execute_plan"
    /\ last.plan.nodes # <<>>
    /\ last.plan.nodes[Len(last.plan.nodes)].node = kind

\* The result of the input of the root node of the executed plan
RootInputResult ==
    ExecuteNode(executor_registry, last.plan.nodes[Len(last.plan.nodes)].input).res

\* C12: for a Limit node with count N over an input of R rows, the result has exactly
\* min(N, R) rows and they are the first min(N, R) rows of the input, in the input's
\* order.
C12_LimitKeepsPrefix ==
    (RootIs("Limit") /\ IsOk(RootInputResult)) =>
        /\ IsOk(last.res)
        /\ Len(last.res.rows) =
              Min(last.plan.nodes[Len(last.plan.nodes)].count, Len(RootInputResult.rows))
        /\ \A k \in 1..Len(last.res.rows) : last.res.rows[k] = RootInputResult.rows[k]

\* C12 witness: a Limit of 2 over a sorted input of four rows, cut to two
C12_Witness ==
    /\ RootIs("Limit")
    /\ last.plan.nodes[Len(last.plan.nodes)].count = 2
    /\ last.plan.nodes[Len(last.plan.nodes)].input.node = "Sort"
    /\ IsOk(RootInputResult)
    /\ Len(RootInputResult.rows) = 4
    /\ Len(last.res.rows) = 2

\* The places a total order may give to a float that is not a number, relative to
\* the prices 1.00 and 2.00: below both, between them, above both
NanPlaces == {-1, 150, 1000000}

\* a <= b in a total order over values in which null precedes every other value,
\* numbers are in numeric order, texts in lexicographic order, false precedes true,
\* and the float that is not a number sits at nan_place
PrecedesOrEqual(a, b, nan_place) ==
    CASE a.t = "Null" -> TRUE
      [] b.t = "Null" -> FALSE
      [] a.t = "Integer" /\ b.t = "Integer" -> a.i <= b.i
      [] a.t = "Float" /\ b.t = "Float" ->
            (IF a.nan THEN nan_place ELSE a.f) <= (IF b.nan THEN nan_place ELSE b.f)
      [] a.t = "Text" /\ b.t = "Text" -> CmpText(a.s, b.s) <= 0
      [] a.t = "Boolean" /\ b.t = "Boolean" -> (a.b => b.b)
      [] OTHER -> DebugRank(a) <= DebugRank(b)

\* C13: after a Sort node on primary ordering column c, the values of c in
\* consecutive output rows are non-decreasing for ascending and non-increasing for
\* descending, under a total order over values in which null precedes every non-null
\* value.
C13_SortedOnPrimaryColumn ==
    (RootIs("Sort") /\ IsOk(last.res)) =>
        LET primary == last.plan.nodes[Len(last.plan.nodes)].order_by.columns[1]
            c == ColumnIndex(last.res.columns, primary.column)
        IN \E nan_place \in NanPlaces :
              \A k \in 1..(Len(last.res.rows) - 1) :
                 IF primary.direction = "Ascending"
                 THEN PrecedesOrEqual(last.res.rows[k][c], last.res.rows[k + 1][c], nan_place)
                 ELSE PrecedesOrEqual(last.res.rows[k + 1][c], last.res.rows[k][c], nan_place)

\* The number a row value or a predicate literal stands for, in hundredths
NumberOf(x) == IF x.t = "Integer" THEN 100 * x.i ELSE x.f

\* Whether a row value or a predicate literal is a number
IsNumber(x) == x.t \in {"Integer", "Number"} \/ (x.t = "Float" /\ ~x.nan)

\* Whether a value satisfies a comparison with a literal, read as SQL reads it
Satisfies(value, operator, literal) ==
    /\ IsNumber(value)
    /\ IsNumber(literal)
    /\ CASE operator = "GreaterThan" -> NumberOf(value) > NumberOf(literal)
         [] operator = "LessThan" -> NumberOf(value) < NumberOf(literal)
         [] operator = "Equal" -> NumberOf(value) = NumberOf(literal)
         [] OTHER -> FALSE

\* Whether a row satisfies every predicate
RowSatisfies(row, columns, predicates) ==
    \A k \in 1..Len(predicates) :
        /\ ColumnIndex(columns, predicates[k].column) # 0
        /\ Satisfies(row[ColumnIndex(columns, predicates[k].column)],
                     predicates[k].operator, predicates[k].value)

\* C19: for a connected connector exposing a table, a query with comparison
\* predicates returns exactly the rows that satisfy every predicate, in the table's
\* original row order.
C19_FilterReturnsSatisfyingRows ==
    (SingleEnvelopeResolved /\ ResolvedConnector.impl = "MockConnector"
        /\ ResolvedConnector.connected /\ IsOk(last.res)) =>
        LET table == TestData(ResolvedConnector.test_data)[
                         last.queries[1].query.sources[1].identifier]
            kept == {k \in 1..Len(table.rows) :
                        RowSatisfies(table.rows[k], table.columns,
                                     last.queries[1].query.predicates)}
        IN /\ Len(last.res.rows) = Cardinality(kept)
           /\ \A k \in kept :
                 last.res.rows[Cardinality({j \in kept : j <= k})] = table.rows[k]


\* The table scan at the leaf of a node's chain
RECURSIVE LeafOf(_)
LeafOf(node) ==
    IF node.node = "TableScan" THEN node ELSE LeafOf(node.input)

\* The steps of a node's chain, from its leaf to the node itself
RECURSIVE ChainSteps(_)
ChainSteps(node) ==
    CASE node.node = "TableScan" -> <<"execute_query">>
      [] node.node = "Limit" -> ChainSteps(node.input) \o <<"apply_limit">>
      [] node.node = "Sort" -> ChainSteps(node.input) \o <<"apply_sort">>
      [] node.node = "Projection" -> ChainSteps(node.input) \o <<"apply_projection">>

\* C14: within one execute_plan the nodes are evaluated as a single chain from the
\* leaf to the root: the connector's execute_query for the TableScan is invoked
\* exactly once when the executor's registry holds a connector for the source (and
\* never more than once), and it has completed before any Sort or Limit step; a
\* successful call took exactly the steps of the root's chain, leaf first.
C14_ScanOnceBeforeSortAndLimit ==
    (last.op = "execute_plan" /\ last.plan.nodes # <<>>) =>
        LET root == last.plan.nodes[Len(last.plan.nodes)]
            steps == last.steps
            scans == {i \in DOMAIN steps : steps[i] = "execute_query"}
        IN /\ Cardinality(scans) <= 1
           /\ Len(last.calls) = Cardinality(scans)
           /\ \A i \in DOMAIN steps :
                steps[i] \in {"apply_sort", "apply_limit"} => \E j \in scans : j < i
           /\ (/\ IsSome(executor_registry)
               /\ IsSome(GuessConnector(executor_registry.val, LeafOf(root).source.object_type)))
                => Cardinality(scans) = 1
           /\ IsOk(last.res) => steps = ChainSteps(root)

\* A plan with a sort and a limit above its scan ran to the end
C14_Witness ==
    /\ last.op = "execute_plan"
    /\ IsOk(last.res)
    /\ Len(last.plan.nodes) = 3
    /\ last.steps = <<"execute_query", "apply_sort", "apply_limit">>
    /\ Len(last.calls) = 1


\* The text is one statement, a SELECT, in every dialect that parses it
SingleSelect(sql) ==
    \A d \in DOMAIN sql :
        sql[d].parsed =>
            /\ Len(sql[d].statements) = 1
            /\ sql[d].statements[1].stmt = "Query"
            /\ sql[d].statements[1].body = "Select"

\* C20: parse_sql accepts only a text that consists of a single SELECT statement; any
\* other text, a different kind of statement or more than one statement, is rejected
\* with an error of the query-parsing family.
C20_OnlySingleSelectAccepted ==
    (last.op = "parse_sql" /\ ~SingleSelect(last.sql)) =>
        /\ IsErr(last.res)
        /\ last.res.family = "QueryParsing"


\* What Engine::execute_query returns for the text when it is the only call under way
Alone(sql) == EngineExecuteQuery(connector_registry, type_to_connector, sql).res

\* C15: execute_query calls issued concurrently on one shared engine all complete,
\* and each completes with the result the same call returns when it runs alone
\* against the registries of that moment.
C15_ConcurrentCallsCompleteAsAlone ==
    /\ [][\A t \in Tasks :
            (in_flight[t].pc \notin {"idle", "done"} /\ in_flight'[t].pc = "done")
                => in_flight'[t].res = Alone(in_flight[t].sql)]_vars
    /\ \A t \in Tasks : (in_flight[t].pc # "idle") ~> (in_flight[t].pc = "done")

\* A call returned rows from a registered, connected connector while another call
\* held the dispatcher's read guard
C15_Witness ==
    \E t \in Tasks :
        /\ in_flight[t].pc = "done"
        /\ IsOk(in_flight[t].res)
        /\ in_flight[t].res.rows # <<>>
        /\ in_flight[t].alongside # {}


\* The error of a connector that is not connected
NotConnected == Err("Connector", "ConnectionFailed", Msg("Not connected"))

\* The latest connect or disconnect made on the connector, "new" if there was none
LatestLifecycle ==
    IF lifecycle = <<>> THEN "new" ELSE lifecycle[Len(lifecycle)]

\* C21: a connector answers execute_query and get_schema only while connected: a
\* call made before the first connect, or after a disconnect with no later connect,
\* fails with ConnectionFailed("Not connected"); a call made after a connect with no
\* later disconnect is not rejected for connectivity.
C21_AnswersOnlyWhileConnected ==
    (last.op \in {"connector_execute_query", "get_schema"}) =>
        /\ LatestLifecycle # "connect" => last.res = NotConnected
        /\ LatestLifecycle = "connect" => last.res # NotConnected

\* A query made after connect and then disconnect was refused
C21_Witness ==
    /\ last.op = "connector_execute_query"
    /\ lifecycle = <<"connect", "disconnect">>
    /\ last.res = NotConnected

\* C22: MockConnector::execute_query on a query that carries limit N returns at most
\* N rows.
C22_ConnectorHonoursLimit ==
    (/\ last.op = "connector_execute_query"
     /\ IsOk(last.res)
     /\ IsSome(last.query.query.limit))
        => Len(last.res.rows) <= last.query.query.limit.val


\* C23: ConnectorRegistry::register with a name that is already present fails with a
\* registration-failed error and leaves the registry unchanged: its size is the same
\* and the connector registered first is still the one returned for that name.
C23_DuplicateNameLeavesRegistry ==
    (last.op = "registry_register" /\ last.name \in DOMAIN last.before) =>
        /\ IsErr(last.res)
        /\ last.res.variant = "RegistrationFailed"
        /\ RegistryLen(connector_registry) = RegistryLen(last.before)
        /\ RegistryGet(connector_registry, last.name) = RegistryGet(last.before, last.name)
        /\ connector_registry = last.before

\* A second connector, of another kind, was offered under a name in use
C23_Witness ==
    /\ last.op = "registry_register"
    /\ last.name \in DOMAIN last.before
    /\ last.before[last.name].impl # last.connector.impl
    /\ IsErr(last.res)


\* C30: after any sequence of register_type and unregister_type calls the type
\* registry holds a capability record only for connector names that some registered
\* object type maps to; unregister_type(T) leaves no record for the name T mapped to.
C30_CapabilitiesOnlyForMappedNames ==
    DOMAIN connector_capabilities
        \subseteq {type_to_connector[t] : t \in DOMAIN type_to_connector}


\* C25: a register_connector call that fails leaves the dispatcher exactly as it was
\* before the call: no connector is added to the connector registry, and the
\* registered object types and the connector each resolves to are unchanged.
C25_FailedRegistrationChangesNothing ==
    [][(last'.op = "register_connector" /\ created' = created + 1 /\ IsErr(last'.res))
        => /\ connector_registry' = connector_registry
           /\ type_to_connector' = type_to_connector
           /\ connector_capabilities' = connector_capabilities]_vars

\* C27: for a dispatcher that started empty, after any sequence of register_connector
\* calls every registered object type resolves to a connector held in the connector
\* registry, so route_query and execute_distributed_query never fail with
\* NoSuitableConnector.
C27_RegisteredTypesResolve ==
    /\ \A t \in DOMAIN type_to_connector :
            IsSome(GetConnector(connector_registry, type_to_connector, t))
    /\ (last.op \in {"route_query", "execute_distributed_query", "engine_execute_query"}
        /\ IsErr(last.res))
            => last.res.variant # "NoSuitableConnector"

\* Both object types are registered and a query was routed to the connector of one
C27_Witness ==
    /\ DOMAIN type_to_connector = ObjectTypes
    /\ last.op = "route_query"
    /\ IsOk(last.res)

\* C28: for a dispatcher that started empty, after any sequence of successful and
\* failed register_connector calls, registering an object type that is not yet
\* registered succeeds: the name synthesized from the object type and the ordinal
\* is never one the connector registry already holds.
C28_FreshTypeAlwaysRegisters ==
    /\ \A t \in ObjectTypes \ DOMAIN type_to_connector :
            IsOk(RegisterConnectorCall(connector_registry, type_to_connector,
                                       connector_capabilities, t, PostgresConnector(0)).res)
    /\ (last.op = "register_connector" /\ ~last.was_registered) => IsOk(last.res)

\* A fresh type was registered after a registration that failed
C28_Witness ==
    /\ last.op = "register_connector"
    /\ ~last.was_registered
    /\ IsOk(last.res)
    /\ RegistryLen(connector_registry) = 3
    /\ Cardinality(DOMAIN type_to_connector) = 2

\* C29: for every query with exactly one source, estimate_cost(query) equals the
\* estimated_cost of the plan that create_execution_plan(query) returns.
C29_EstimateEqualsPlanCost ==
    (last.op = "create_execution_plan" /\ Len(last.query.sources) = 1) =>
        /\ IsOk(last.res)
        /\ IsOk(EstimateCost(last.planner, last.query))
        /\ EstimateCost(last.planner, last.query).cost = last.res.plan.estimated_cost

\* The object type a call between its routing and its execution step addresses
AddressedType(slot) == slot.envelopes[1].query.sources[1].object_type

\* C26: once Engine::register_connector for an object type has returned success,
\* every Engine::execute_query that starts afterwards and addresses the type is
\* routed to that connector, whatever runs concurrently: the type keeps resolving to
\* the connector, a call whose type is registered is routed and then executed by the
\* connector the type resolves to, and no registration takes effect while a call is
\* between its routing step and the end of its execution step.
C26_RegistrationNeverSplitsAQuery ==
    [][/\ \A o \in DOMAIN type_to_connector :
              /\ o \in DOMAIN type_to_connector'
              /\ GetConnector(connector_registry', type_to_connector', o)
                    = GetConnector(connector_registry, type_to_connector, o)
       /\ (\E t \in Tasks : in_flight[t].pc \in {"route", "execute"})
              => /\ connector_registry' = connector_registry
                 /\ type_to_connector' = type_to_connector
                 /\ connector_capabilities' = connector_capabilities
       /\ \A t \in Tasks :
              (in_flight[t].pc = "execute" /\ in_flight'[t].pc = "done")
                  => /\ IsTypeRegistered(type_to_connector, AddressedType(in_flight[t]))
                     /\ in_flight'[t].res =
                            ConnectorExecuteQuery(
                                GetConnector(connector_registry, type_to_connector,
                                             AddressedType(in_flight[t])).val,
                                in_flight[t].envelopes[1])]_vars

\* After a registration returned, a call that addresses the registered type is
\* between its routing and its execution step while another registration can be made
C26_Witness ==
    /\ created = 1
    /\ dispatcher_lock.writer = NoneVal
    /\ \E t \in Tasks :
          /\ in_flight[t].pc = "execute"
          /\ IsTypeRegistered(type_to_connector, AddressedType(in_flight[t]))

\* C24: after shutdown() is called on an initialized engine, every protocol server
\* task stops accepting connections and terminates, and shutdown() returns
\* successfully with no server task left running.
C24_ShutdownStopsEveryServer ==
    /\ [](engine_pc = "returned" =>
            /\ last = [op |-> "shutdown", res |-> OkUnit]
            /\ server_tasks = <<>>
            /\ \A s \in DOMAIN servers : servers[s].state = "stopped")
    /\ [][\A s \in DOMAIN servers :
            servers[s].state = "stopped" => servers'[s] = servers[s]]_vars
    /\ (engine_pc = "draining") ~> (engine_pc = "returned")

\* shutdown() returned on an engine that ran several protocol servers, one of which
\* had accepted a client
C24_Witness ==
    /\ engine_pc = "returned"
    /\ Len(servers) >= 2
    /\ \E s \in DOMAIN servers : servers[s].accepted > 0

====
